---- MODULE Spec2Model ----
(***************************************************************************)
(* Model of the Markdown code-block repair engine (markdown_repair.py),    *)
(* of process_file and of the GUI pipeline that drives the repair steps.   *)
(*                                                                         *)
(* Text representation.  A Python string is modelled as the sequence of    *)
(* its lines (the result of splitting at line breaks, so a text has at     *)
(* least one line and the empty string is << <<>> >>); a line is a         *)
(* sequence of symbols.  Every symbol is one character, except             *)
(*    "F"  which stands for the three-backtick fence marker, and           *)
(*    "D"  which stands for the two-character placeholder word.            *)
(***************************************************************************)
EXTENDS Integers, Sequences, FiniteSets, TLC

\* CodeBlockProcessor.run and process_file (markdown_repair.py)
VARIABLES pc, input, mode, target_lang_all, default_lang, block_count,
          text, idx, output_parts, buffer, in_block_type,
          sub_out, sub_rest, final_text, log, blocks, run_no, file

\* MarkdownProcessorGUI.process_files (feishu2md.py) and
\* GuiBoldHeaderCorrector (markdown_setting.py)
VARIABLES gpc, enabled, disk, written, events, nblocks, gmode, bidx, replaced,
          hlines, hidx, new_lines, user_cancelled, allow_level_one,
          first_level_one_set

runVars == <<pc, input, mode, target_lang_all, default_lang, block_count,
             text, idx, output_parts, buffer, in_block_type,
             sub_out, sub_rest, final_text, log, blocks, run_no, file>>

guiVars == <<gpc, enabled, disk, written, events, nblocks, gmode, bidx, replaced,
             hlines, hidx, new_lines, user_cancelled, allow_level_one,
             first_level_one_set>>

\* a single call of one of the functions of markdown_repair.py and
\* markdown_cleaner.py: the function, its argument, and what it returned
VARIABLES fname, arg, res, fpc

fnVars == <<fname, arg, res, fpc>>

vars == <<runVars, guiVars, fnVars>>

(***************************************************************************)
(* Bounds of the model and constants of the program.                       *)
(***************************************************************************)
MaxLines == 3

FenceTagLimit == 15

DashRuleLen == 40

IndentSize == 4

SnippetLines == 7

(***************************************************************************)
(* Characters and strings.                                                 *)
(***************************************************************************)
Fence == "F"

Marker == "D"

INVALID == <<"__INVALID__">>

DEMO == <<"__DEMO__">>

KNOWN_LANGUAGES == { <<"c">>, <<"j", "s">> }

IsSpace(ch) == ch = " "

Lower(ch) == IF ch = "C" THEN "c" ELSE IF ch = "A" THEN "a" ELSE ch

LowerStr(s) == [i \in 1..Len(s) |-> Lower(s[i])]

\* [a-zA-Z0-9_.-]
IsIdChar(ch) ==
    ch \in {"a", "c", "e", "f", "i", "j", "n", "o", "s", "x", "A", "C", "-"}

\* \w (Unicode): letters, digits, underscore, CJK
IsWord(ch) ==
    ch \in {"a", "c", "e", "f", "i", "j", "n", "o", "s", "x", "A", "C", "D"}

CharLen(ch) == IF ch = Marker THEN 2 ELSE 1

RECURSIVE LStrip(_)
LStrip(s) == IF s # <<>> /\ IsSpace(Head(s)) THEN LStrip(Tail(s)) ELSE s

RECURSIVE RStrip(_)
RStrip(s) ==
    IF s # <<>> /\ IsSpace(s[Len(s)]) THEN RStrip(SubSeq(s, 1, Len(s) - 1))
    ELSE s

Strip(s) == RStrip(LStrip(s))

IsBlank(s) == Strip(s) = <<>>

StartsWith(s, p) == Len(s) >= Len(p) /\ SubSeq(s, 1, Len(p)) = p

EmptyText == << <<>> >>

\* join of parts with line breaks: no part holds a line break
Join(parts) == IF parts = <<>> THEN EmptyText ELSE parts

\* a + b for two strings: the last line of a continues with the first of b
Glue(a, b) ==
    SubSeq(a, 1, Len(a) - 1) \o <<a[Len(a)] \o b[1]>> \o Tail(b)

RECURSIVE LStripText(_)
LStripText(t) ==
    IF Len(t) > 1 /\ IsBlank(t[1]) THEN LStripText(Tail(t))
    ELSE <<LStrip(t[1])>> \o Tail(t)

RECURSIVE RStripText(_)
RStripText(t) ==
    IF Len(t) > 1 /\ IsBlank(t[Len(t)]) THEN RStripText(SubSeq(t, 1, Len(t) - 1))
    ELSE SubSeq(t, 1, Len(t) - 1) \o <<RStrip(t[Len(t)])>>

StripText(t) == RStripText(LStripText(t))

RECURSIVE Flatten(_)
Flatten(segs) == IF segs = <<>> THEN <<>> ELSE Head(segs) \o Flatten(Tail(segs))

(***************************************************************************)
(* Line classification of the scanner and of the final pass.               *)
(***************************************************************************)
RECURSIVE NonBacktickLen(_)
NonBacktickLen(s) ==
    IF s = <<>> THEN 0
    ELSE (IF Head(s) = Fence THEN 0 ELSE CharLen(Head(s))) + NonBacktickLen(Tail(s))

IsStandardDelimiter(line) ==
    StartsWith(Strip(line), <<Fence>>) /\ NonBacktickLen(Strip(line)) < FenceTagLimit

IsDashRun(s) == Len(s) >= 3 /\ \A i \in 1..Len(s) : s[i] = "-"

IsDashedDelimiter(line) == IsDashRun(Strip(line))

Min(S) == CHOOSE m \in S : \A k \in S : m <= k

\* index of the first line at or after i that is not blank, Len(t) + 1 if none
NextNonBlank(t, i) ==
    LET S == {j \in i..Len(t) : ~IsBlank(t[j])}
    IN IF S = {} THEN Len(t) + 1 ELSE Min(S)

(***************************************************************************)
(* _pre_process_fused_blocks: a line that starts with a fence, followed   *)
(* by white space only and then by a second fence, gets a line break       *)
(* before the second fence.  The white space of the pattern also runs      *)
(* over line breaks, so the second fence may stand on a later line.        *)
(***************************************************************************)
RECURSIVE PreProcessFrom(_, _)
PreProcessFrom(t, i) ==
    IF i > Len(t) THEN <<>>
    ELSE IF ~StartsWith(t[i], <<Fence>>) THEN <<t[i]>> \o PreProcessFrom(t, i + 1)
    ELSE LET rest == Tail(t[i])
             r == LStrip(rest)
             ws == SubSeq(rest, 1, Len(rest) - Len(r))
             j == NextNonBlank(t, i + 1)
         IN IF r # <<>>
            THEN IF Head(r) = Fence
                 THEN << <<Fence>> \o ws, r >> \o PreProcessFrom(t, i + 1)
                 ELSE <<t[i]>> \o PreProcessFrom(t, i + 1)
            ELSE IF j <= Len(t) /\ StartsWith(LStrip(t[j]), <<Fence>>)
                 THEN SubSeq(t, i, j - 1)
                      \o << SubSeq(t[j], 1, Len(t[j]) - Len(LStrip(t[j]))), LStrip(t[j]) >>
                      \o PreProcessFrom(t, j + 1)
                 ELSE <<t[i]>> \o PreProcessFrom(t, i + 1)

_pre_process_fused_blocks(markdown_text) == PreProcessFrom(markdown_text, 1)

(***************************************************************************)
(* _validate_identifier                                                    *)
(***************************************************************************)
_validate_identifier(identifier, context) ==
    IF identifier = <<>> THEN TRUE
    ELSE IF ~(\A i \in 1..Len(identifier) : IsIdChar(identifier[i])) THEN FALSE
    ELSE IF LowerStr(identifier) = <<Marker>> THEN TRUE
    ELSE IF context = "first_part" THEN LowerStr(identifier) \in KNOWN_LANGUAGES
    ELSE IF context = "title_line" THEN TRUE
    ELSE FALSE

(***************************************************************************)
(* _process_dashed_content                                                 *)
(***************************************************************************)
Backslash == "\\"

\* re.sub of \\\s*$ by the empty string, MULTILINE: the white space after
\* the backslash runs over the blank lines that follow it
RECURSIVE RemoveTrailingBackslash(_, _)
RemoveTrailingBackslash(t, i) ==
    IF i > Len(t) THEN <<>>
    ELSE LET r == RStrip(t[i])
         IN IF r # <<>> /\ r[Len(r)] = Backslash
            THEN <<SubSeq(r, 1, Len(r) - 1)>>
                 \o RemoveTrailingBackslash(t, NextNonBlank(t, i + 1))
            ELSE <<t[i]>> \o RemoveTrailingBackslash(t, i + 1)

RECURSIVE DropLeadingBlank(_)
DropLeadingBlank(lines) ==
    IF lines # <<>> /\ IsBlank(Head(lines)) THEN DropLeadingBlank(Tail(lines))
    ELSE lines

LangSpec(lang, title) == IF title # <<>> THEN lang \o <<" ">> \o title ELSE lang

\* a conversion that leaves the block open
_process_dashed_content_unclosed(buf) ==
    LET content == StripText(RemoveTrailingBackslash(Join(buf), 1))
        lines1 == DropLeadingBlank(content)
        hasLang == lines1 # <<>> /\ _validate_identifier(Strip(lines1[1]), "first_part")
        lang == IF hasLang THEN Strip(lines1[1]) ELSE <<>>
        lines2 == IF hasLang THEN Tail(lines1) ELSE lines1
        hasTitle == lines2 # <<>> /\ _validate_identifier(Strip(lines2[1]), "title_line")
        title == IF hasTitle THEN Strip(lines2[1]) ELSE <<>>
        code_lines == IF hasTitle THEN Tail(lines2) ELSE lines2
    IN << <<Fence>> \o LangSpec(lang, title) >> \o Join(code_lines)

_process_dashed_content(buf) ==
    LET content == StripText(RemoveTrailingBackslash(Join(buf), 1))
        lines1 == DropLeadingBlank(content)
        hasLang == lines1 # <<>> /\ _validate_identifier(Strip(lines1[1]), "first_part")
        lang == IF hasLang THEN Strip(lines1[1]) ELSE <<>>
        lines2 == IF hasLang THEN Tail(lines1) ELSE lines1
        hasTitle == lines2 # <<>> /\ _validate_identifier(Strip(lines2[1]), "title_line")
        title == IF hasTitle THEN Strip(lines2[1]) ELSE <<>>
        code_lines == IF hasTitle THEN Tail(lines2) ELSE lines2
    IN << <<Fence>> \o LangSpec(lang, title) >> \o Join(code_lines) \o << <<Fence>> >>

(***************************************************************************)
(* _clean_code_content: the two emphasis patterns, n stars, a run of word  *)
(* characters, n stars, with no word character on either side.             *)
(***************************************************************************)
AllStars(line, p, n) ==
    p + n - 1 <= Len(line) /\ \A k \in p..(p + n - 1) : line[k] = "*"

\* end of the maximal run of word characters starting at p (p - 1 if none)
RECURSIVE WordRunEnd(_, _)
WordRunEnd(line, p) ==
    IF p <= Len(line) /\ IsWord(line[p]) THEN WordRunEnd(line, p + 1) ELSE p - 1

EmphasisAt(line, p, n) ==
    LET e == WordRunEnd(line, p + n)
    IN /\ AllStars(line, p, n)
       /\ (p = 1 \/ ~IsWord(line[p - 1]))
       /\ e >= p + n
       /\ AllStars(line, e + 1, n)
       /\ (e + n + 1 > Len(line) \/ ~IsWord(line[e + n + 1]))

RECURSIVE StripEmphasis(_, _, _)
StripEmphasis(line, p, n) ==
    IF p > Len(line) THEN <<>>
    ELSE IF EmphasisAt(line, p, n)
         THEN SubSeq(line, p + n, WordRunEnd(line, p + n))
              \o StripEmphasis(line, WordRunEnd(line, p + n) + n + 1, n)
         ELSE <<line[p]>> \o StripEmphasis(line, p + 1, n)

_clean_code_content(code_text) ==
    [i \in 1..Len(code_text) |->
        StripEmphasis(StripEmphasis(code_text[i], 1, 2), 1, 1)]

(***************************************************************************)
(* _format_code_content                                                    *)
(***************************************************************************)
IsOperator(ch) == ch \in {"=", "+", "-", "/"}

RECURSIVE SkipSpaces(_, _)
SkipSpaces(line, p) ==
    IF p <= Len(line) /\ IsSpace(line[p]) THEN SkipSpaces(line, p + 1) ELSE p

\* re.sub of \s*([=+\-/])\s* by the operator between two spaces
RECURSIVE SpaceOperators(_, _)
SpaceOperators(line, p) ==
    IF p > Len(line) THEN <<>>
    ELSE LET q == SkipSpaces(line, p)
         IN IF q <= Len(line) /\ IsOperator(line[q])
            THEN <<" ", line[q], " ">> \o SpaceOperators(line, SkipSpaces(line, q + 1))
            ELSE <<line[p]>> \o SpaceOperators(line, p + 1)

\* str.replace
RECURSIVE Replace(_, _, _)
Replace(line, old, new) ==
    IF line = <<>> THEN <<>>
    ELSE IF StartsWith(line, old)
         THEN new \o Replace(SubSeq(line, Len(old) + 1, Len(line)), old, new)
         ELSE <<Head(line)>> \o Replace(Tail(line), old, new)

RejoinCompound(line) ==
    LET r1 == Replace(line, <<"+", " ", "=">>, <<"+", "=">>)
        r2 == Replace(r1, <<"-", " ", "=">>, <<"-", "=">>)
        r3 == Replace(r2, <<"*", " ", "=">>, <<"*", "=">>)
        r4 == Replace(r3, <<"/", " ", "=">>, <<"/", "=">>)
        r5 == Replace(r4, <<"=", " ", "=">>, <<"=", "=">>)
        r6 == Replace(r5, <<"!", " ", "=">>, <<"!", "=">>)
        r7 == Replace(r6, <<"+", " ", "+">>, <<"+", "+">>)
    IN Replace(r7, <<"-", " ", "-">>, <<"-", "-">>)

Count(line, ch) == Cardinality({k \in 1..Len(line) : line[k] = ch})

Spaces(n) == [k \in 1..n |-> " "]

Max(a, b) == IF a >= b THEN a ELSE b

RECURSIVE FormatFrom(_, _, _)
FormatFrom(lines, i, indent_level) ==
    IF i > Len(lines) THEN <<>>
    ELSE IF IsDashRun(Strip(lines[i]))
         THEN <<lines[i]>> \o FormatFrom(lines, i + 1, indent_level)
         ELSE LET trimmed_line == Strip(RejoinCompound(SpaceOperators(lines[i], 1)))
                  level == IF StartsWith(trimmed_line, <<"}">>)
                           THEN Max(0, indent_level - 1) ELSE indent_level
                  next == Max(0, level + Count(trimmed_line, "{")
                                       - Count(trimmed_line, "}"))
              IN <<Spaces(level * IndentSize) \o trimmed_line>>
                 \o FormatFrom(lines, i + 1, next)

_format_code_content(code_text) == FormatFrom(code_text, 1, 0)

(***************************************************************************)
(* _deconstruct_block                                                      *)
(***************************************************************************)
HasSpace(s) == \E k \in 1..Len(s) : s[k] = " "

\* end of the maximal run of non-space characters starting at p
RECURSIVE NonSpaceRunEnd(_, _)
NonSpaceRunEnd(line, p) ==
    IF p <= Len(line) /\ ~IsSpace(line[p]) THEN NonSpaceRunEnd(line, p + 1) ELSE p - 1

\* a first line whose unknown first token is pushed into the body alone
ParseFirstLine_token_only(first_line) ==
    IF StartsWith(first_line, <<Fence>>)
    THEN LET e == NonSpaceRunEnd(first_line, 2)
             first_part == SubSeq(first_line, 2, e)
             second_part == Strip(SubSeq(first_line, e + 1, Len(first_line)))
         IN IF _validate_identifier(first_part, "first_part")
            THEN IF second_part # <<>>
                 THEN IF _validate_identifier(second_part, "title_line")
                      THEN [lang |-> first_part \o <<" ">> \o second_part, parts |-> <<>>]
                      ELSE [lang |-> first_part, parts |-> <<second_part>>]
                 ELSE [lang |-> first_part, parts |-> <<>>]
            ELSE IF LowerStr(first_part) = <<Marker>>
                 THEN [lang |-> DEMO,
                       parts |-> IF second_part # <<>> THEN <<second_part>> ELSE <<>>]
                 ELSE [lang |-> INVALID, parts |-> <<first_part>>]
    ELSE [lang |-> INVALID, parts |-> <<first_line>>]

\* the tag and the lines pushed into the body by the first line of a block
ParseFirstLine(first_line) ==
    IF StartsWith(first_line, <<Fence>>)
    THEN LET e == NonSpaceRunEnd(first_line, 2)
             first_part == SubSeq(first_line, 2, e)
             second_part == Strip(SubSeq(first_line, e + 1, Len(first_line)))
             full_content == Strip(first_part \o <<" ">> \o second_part)
         IN IF _validate_identifier(first_part, "first_part")
            THEN IF second_part # <<>>
                 THEN IF _validate_identifier(second_part, "title_line")
                      THEN [lang |-> first_part \o <<" ">> \o second_part, parts |-> <<>>]
                      ELSE [lang |-> first_part, parts |-> <<second_part>>]
                 ELSE [lang |-> first_part, parts |-> <<>>]
            ELSE IF LowerStr(first_part) = <<Marker>>
                 THEN [lang |-> DEMO,
                       parts |-> IF second_part # <<>> THEN <<second_part>> ELSE <<>>]
                 ELSE [lang |-> INVALID,
                       parts |-> IF full_content # <<>> THEN <<full_content>> ELSE <<>>]
    ELSE [lang |-> INVALID, parts |-> <<first_line>>]

_deconstruct_block(block_text) ==
    LET l1 == IF IsBlank(block_text[1]) THEN Tail(block_text) ELSE block_text
        lines == IF l1 # <<>> /\ IsBlank(l1[Len(l1)])
                 THEN SubSeq(l1, 1, Len(l1) - 1) ELSE l1
    IN IF lines = <<>> THEN [lang |-> <<>>, code |-> EmptyText]
       ELSE LET first == ParseFirstLine(lines[1])
                content0 == SubSeq(lines, 2, Len(lines) - 1)
                potential_lang == IF content0 # <<>> THEN Strip(content0[1]) ELSE <<>>
                promote == /\ content0 # <<>>
                           /\ first.lang = <<>>
                           /\ _validate_identifier(potential_lang, "first_part")
                           /\ ~HasSpace(potential_lang)
                lang1 == IF promote THEN potential_lang ELSE first.lang
                content1 == IF promote THEN Tail(content0) ELSE content0
                is_simple_lang == ~HasSpace(lang1) /\ lang1 \notin {INVALID, DEMO}
                potential_title == IF content1 # <<>> THEN Strip(content1[1]) ELSE <<>>
                titled == /\ content1 # <<>>
                          /\ lang1 # <<>>
                          /\ is_simple_lang
                          /\ potential_title # <<>>
                          /\ _validate_identifier(potential_title, "title_line")
                lang2 == IF titled THEN lang1 \o <<" ">> \o potential_title ELSE lang1
                content2 == IF titled THEN Tail(content1) ELSE content1
            IN [lang |-> lang2, code |-> Join(first.parts \o content2)]

(***************************************************************************)
(* _get_target_language and _replacement_callback                          *)
(***************************************************************************)
NoneWord == <<"n", "o", "n", "e">>

\* a target language that takes the answer none for a tag
_get_target_language_none_tag(m, target_all, original_lang, answer) ==
    IF m = "all" THEN target_all
    ELSE LET user_input == LowerStr(Strip(answer))
         IN IF user_input # <<>> THEN user_input ELSE original_lang

\* a target language that forgets the uniform mode
_get_target_language_per_block(m, target_all, original_lang, answer) ==
    LET user_input == LowerStr(Strip(answer))
    IN IF user_input = NoneWord THEN <<>>
       ELSE IF user_input # <<>> THEN user_input ELSE original_lang

_get_target_language(m, target_all, original_lang, answer) ==
    IF m = "all" THEN target_all
    ELSE LET user_input == LowerStr(Strip(answer))
         IN IF user_input = NoneWord THEN <<>>
            ELSE IF user_input # <<>> THEN user_input ELSE original_lang

NeedsFixing(original_lang) == original_lang \in {INVALID, DEMO} \/ original_lang = <<>>

FencedBlock(target_lang, final_code) ==
    << <<Fence>> \o target_lang >> \o final_code \o << <<Fence>> >>

\* the placeholder line put before a body that does not start with it
MarkedCode(clean_code) ==
    IF ~StartsWith(StripText(clean_code)[1], <<Marker>>)
    THEN IF clean_code # EmptyText THEN << <<Marker>> >> \o clean_code
         ELSE << <<Marker>> >>
    ELSE clean_code

\* the record keeps, besides the replacement text (out), what the callback
\* computed and printed on the way
BlockResult(block_text, parsed, needs_fixing, prompted, target_lang, final_code) ==
    [raw |-> block_text,
     lang |-> parsed.lang,
     code |-> parsed.code,
     needs_fixing |-> needs_fixing,
     prompted |-> prompted,
     target |-> target_lang,
     body |-> final_code,
     out |-> FencedBlock(target_lang, final_code)]

\* a defaulting branch that takes the uniform target in mode all
Finalize_uniform_target(block_text, parsed, clean_code, m, target_all, dflt, answer) ==
    IF NeedsFixing(parsed.lang)
    THEN BlockResult(block_text, parsed, TRUE, FALSE,
                     IF m = "all" THEN target_all ELSE dflt,
                     StripText(MarkedCode(clean_code)))
    ELSE BlockResult(block_text, parsed, FALSE, m # "all",
                     _get_target_language(m, target_all, parsed.lang, answer),
                     StripText(clean_code))

Finalize(block_text, parsed, clean_code, m, target_all, dflt, answer) ==
    IF NeedsFixing(parsed.lang)
    THEN BlockResult(block_text, parsed, TRUE, FALSE, dflt,
                     StripText(MarkedCode(clean_code)))
    ELSE BlockResult(block_text, parsed, FALSE, m # "all",
                     _get_target_language(m, target_all, parsed.lang, answer),
                     StripText(clean_code))

CleanAndFormat(block_text, parsed, m, target_all, dflt, answer) ==
    Finalize(block_text, parsed,
             _format_code_content(_clean_code_content(parsed.code)),
             m, target_all, dflt, answer)

_replacement_callback(block_text, m, target_all, dflt, answer) ==
    CleanAndFormat(block_text, _deconstruct_block(block_text),
                   m, target_all, dflt, answer)

(***************************************************************************)
(* block_finder_regex: a match runs from a line that starts with a fence   *)
(* to the fence at the start of the next such line, whose remainder stays  *)
(* in the text.  After a match the search resumes inside that line.        *)
(***************************************************************************)
FenceStarts(t, from) == {k \in from..Len(t) : StartsWith(t[k], <<Fence>>)}

MatchStart(t, mid) == Min(FenceStarts(t, IF mid THEN 2 ELSE 1))

HasMatch(t, mid) ==
    /\ FenceStarts(t, IF mid THEN 2 ELSE 1) # {}
    /\ FenceStarts(t, MatchStart(t, mid) + 1) # {}

MatchEnd(t, mid) == Min(FenceStarts(t, MatchStart(t, mid) + 1))

MatchText(t, mid) ==
    SubSeq(t, MatchStart(t, mid), MatchEnd(t, mid) - 1) \o << <<Fence>> >>

(***************************************************************************)
(* _fix_unterminated_blocks                                                *)
(***************************************************************************)
FenceCount(t) == Cardinality({k \in 1..Len(t) : IsStandardDelimiter(t[k])})

InBlockAtEnd(t) == FenceCount(t) % 2 = 1

\* the final pass with a fence test that forgets to trim the line
_fix_unterminated_blocks_untrimmed(markdown_text) ==
    IF Cardinality({k \in 1..Len(markdown_text) :
                       /\ StartsWith(markdown_text[k], <<Fence>>)
                       /\ NonBacktickLen(markdown_text[k]) < FenceTagLimit}) % 2 = 1
    THEN Glue(RStripText(markdown_text), << <<>>, <<Fence>>, <<>> >>)
    ELSE markdown_text

_fix_unterminated_blocks(markdown_text) ==
    IF InBlockAtEnd(markdown_text)
    THEN Glue(RStripText(markdown_text), << <<>>, <<Fence>>, <<>> >>)
    ELSE markdown_text

(***************************************************************************)
(* Inputs: documents of at most MaxLines lines, answers to the prompts.    *)
(***************************************************************************)
LongTag == [k \in 1..FenceTagLimit |-> "x"]

LineSet ==
    { <<Fence>>,                  \* a bare fence
      <<Fence, "c">>,             \* a fence with a known language
      <<Fence, "x">>,             \* a fence with an unknown tag
      <<" ", Fence>>,             \* an indented fence
      <<"-", "-", "-">>,          \* a dashed delimiter
      <<"x", "=", "x">>,          \* a statement
      <<"c">>,                    \* a bare identifier that is a language
      <<"/", "/", "x">>,          \* a line comment
      <<Marker, "x">>,            \* text that starts with the placeholder word
      <<Fence>> \o LongTag }      \* a fence followed by a long tag

DocsOfLen(n) == [1..n -> LineSet]

Docs == UNION { DocsOfLen(n) : n \in 1..MaxLines } \cup { EmptyText }

ModeAnswers == { <<"a">>, <<"A">>, <<"i">>, <<"x">> }

ConfigAnswers == { <<>>, <<"c">>, <<"x">> }

BlockAnswers == { <<>>, NoneWord, <<"C">> }

(***************************************************************************)
(* CodeBlockProcessor.__init__ and the call of process_file                *)
(***************************************************************************)
\* the command-line processor before its first prompt
RunStart ==
    /\ pc = "mode"
    /\ mode = "None"
    /\ target_lang_all = <<>>
    /\ default_lang = <<"c">>
    /\ block_count = 0
    /\ text = EmptyText
    /\ idx = 1
    /\ output_parts = <<>>
    /\ buffer = <<>>
    /\ in_block_type = "None"
    /\ sub_out = EmptyText
    /\ sub_rest = EmptyText
    /\ final_text = EmptyText
    /\ log = {}
    /\ blocks = <<>>
    /\ run_no = 1
    /\ file = <<>>

\* the window before the start button is pressed
GuiStart ==
    /\ gpc = "step1"
    /\ written = {}
    /\ events = {}
    /\ gmode = "None"
    /\ bidx = 1
    /\ replaced = {}
    /\ hidx = 1
    /\ new_lines = <<>>
    /\ user_cancelled = FALSE
    /\ allow_level_one = TRUE
    /\ first_level_one_set = FALSE

\* no function called on its own
FnStart ==
    /\ fname = "none"
    /\ arg = <<>>
    /\ res = <<>>
    /\ fpc = "call"

Init ==
    /\ RunStart
    /\ input \in Docs
    /\ GuiStart
    /\ FnStart
    /\ enabled = {}
    /\ disk = {}
    /\ nblocks = 0
    /\ hlines = <<>>

scanVars == <<text, idx, output_parts, buffer, in_block_type>>

subVars == <<sub_out, sub_rest, final_text>>

cfgVars == <<mode, target_lang_all, default_lang>>

(***************************************************************************)
(* run: the prompts                                                        *)
(***************************************************************************)
ChooseMode ==
    /\ pc = "mode"
    /\ \E answer \in ModeAnswers :
         LET choice == LowerStr(Strip(answer))
         IN IF choice \in { <<"a">>, <<"i">> }
            THEN /\ mode' = IF choice = <<"a">> THEN "all" ELSE "individual"
                 /\ pc' = "config"
                 /\ log' = log
            ELSE /\ log' = log \cup {"invalid_mode"}
                 /\ UNCHANGED <<mode, pc>>
    /\ UNCHANGED <<guiVars, fnVars, input, target_lang_all, default_lang, block_count, scanVars,
                   subVars, blocks, run_no, file>>

Configure ==
    /\ pc = "config"
    /\ \E answer \in ConfigAnswers :
         LET a == LowerStr(Strip(answer))
         IN IF mode = "all"
            THEN /\ target_lang_all' = a
                 /\ UNCHANGED default_lang
            ELSE /\ default_lang' = IF a # <<>> THEN a ELSE default_lang
                 /\ UNCHANGED target_lang_all
    /\ pc' = "pre"
    /\ UNCHANGED <<guiVars, fnVars, input, mode, block_count, scanVars, subVars, log, blocks,
                   run_no, file>>

(***************************************************************************)
(* run: step 1, the fused fences                                           *)
(***************************************************************************)
PreProcess ==
    /\ pc = "pre"
    /\ text' = _pre_process_fused_blocks(input)
    /\ log' = IF text' # input THEN log \cup {"fused_split"} ELSE log
    /\ idx' = 1
    /\ output_parts' = <<>>
    /\ buffer' = <<>>
    /\ in_block_type' = "None"
    /\ pc' = "scan"
    /\ UNCHANGED <<guiVars, fnVars, input, cfgVars, block_count, subVars, blocks, run_no, file>>

(***************************************************************************)
(* run: step 2, the line scanner.  A part of output_parts is a record: its *)
(* text (the lines of the string the code appends) and the branch that     *)
(* appended it.                                                            *)
(***************************************************************************)
\* a scanner that emits a closed standard block without its closing line
Part_without_closer(kind, lines) ==
    [kind |-> kind,
     text |-> IF kind = "standard" THEN SubSeq(lines, 1, Len(lines) - 1) ELSE lines]

Part(kind, lines) == [kind |-> kind, text |-> lines]

ScanLine ==
    /\ pc = "scan"
    /\ idx <= Len(text)
    /\ LET line == text[idx]
           is_standard_delimiter == IsStandardDelimiter(line)
           is_dashed_delimiter == IsDashedDelimiter(line)
       IN IF in_block_type = "standard"
          THEN IF is_standard_delimiter
               THEN /\ output_parts' =
                         Append(output_parts, Part("standard", Append(buffer, line)))
                    /\ buffer' = <<>>
                    /\ in_block_type' = "None"
               ELSE /\ buffer' = Append(buffer, line)
                    /\ UNCHANGED <<output_parts, in_block_type>>
          ELSE IF in_block_type = "dashed"
          THEN IF is_dashed_delimiter
               THEN /\ output_parts' =
                         Append(output_parts,
                                Part("dashed", _process_dashed_content(buffer)))
                    /\ buffer' = <<>>
                    /\ in_block_type' = "None"
               ELSE /\ buffer' = Append(buffer, line)
                    /\ UNCHANGED <<output_parts, in_block_type>>
          ELSE IF is_standard_delimiter
               THEN /\ in_block_type' = "standard"
                    /\ buffer' = Append(buffer, line)
                    /\ UNCHANGED output_parts
               ELSE IF is_dashed_delimiter
               THEN /\ in_block_type' = "dashed"
                    /\ UNCHANGED <<output_parts, buffer>>
               ELSE /\ output_parts' = Append(output_parts, Part("plain", <<line>>))
                    /\ UNCHANGED <<buffer, in_block_type>>
    /\ idx' = idx + 1
    /\ UNCHANGED <<guiVars, fnVars, pc, input, cfgVars, block_count, text, subVars, log, blocks,
                   run_no, file>>

DashRule == [k \in 1..DashRuleLen |-> "-"]

\* "\n".join(output_parts)
JoinParts(parts) ==
    IF parts = <<>> THEN EmptyText
    ELSE Flatten([k \in 1..Len(parts) |-> parts[k].text])

ScanEnd ==
    /\ pc = "scan"
    /\ idx > Len(text)
    /\ IF buffer # <<>> /\ in_block_type = "standard"
       THEN /\ output_parts' = Append(output_parts, Part("unterminated", buffer))
            /\ log' = log \cup {"unterminated_standard"}
       ELSE IF buffer # <<>> /\ in_block_type = "dashed"
       THEN /\ output_parts' =
                 output_parts \o << Part("rule", <<DashRule>>) >>
                 \o [k \in 1..Len(buffer) |-> Part("dangling", <<buffer[k]>>)]
            /\ log' = log \cup {"unterminated_dashed"}
       ELSE UNCHANGED <<output_parts, log>>
    /\ sub_rest' = JoinParts(output_parts')
    /\ sub_out' = EmptyText
    /\ pc' = "sub"
    /\ UNCHANGED <<guiVars, fnVars, input, cfgVars, block_count, text, idx, buffer, in_block_type,
                   final_text, blocks, run_no, file>>

\* the scanner as a whole: the parts it has appended once it has read the
\* lines of t from the i-th on and flushed its buffer
RECURSIVE ScanFrom(_, _, _, _, _)
ScanFrom(t, i, type, buf, parts) ==
    IF i > Len(t)
    THEN IF buf # <<>> /\ type = "standard"
         THEN Append(parts, Part("unterminated", buf))
         ELSE IF buf # <<>> /\ type = "dashed"
         THEN parts \o << Part("rule", <<DashRule>>) >>
              \o [k \in 1..Len(buf) |-> Part("dangling", <<buf[k]>>)]
         ELSE parts
    ELSE IF type = "standard"
    THEN IF IsStandardDelimiter(t[i])
         THEN ScanFrom(t, i + 1, "None", <<>>,
                       Append(parts, Part("standard", Append(buf, t[i]))))
         ELSE ScanFrom(t, i + 1, type, Append(buf, t[i]), parts)
    ELSE IF type = "dashed"
    THEN IF IsDashedDelimiter(t[i])
         THEN ScanFrom(t, i + 1, "None", <<>>,
                       Append(parts, Part("dashed", _process_dashed_content(buf))))
         ELSE ScanFrom(t, i + 1, type, Append(buf, t[i]), parts)
    ELSE IF IsStandardDelimiter(t[i])
    THEN ScanFrom(t, i + 1, "standard", Append(buf, t[i]), parts)
    ELSE IF IsDashedDelimiter(t[i])
    THEN ScanFrom(t, i + 1, "dashed", buf, parts)
    ELSE ScanFrom(t, i + 1, type, buf, Append(parts, Part("plain", <<t[i]>>)))

(***************************************************************************)
(* run: step 3, block_finder_regex.sub(_replacement_callback, ...), one    *)
(* match at a time                                                         *)
(***************************************************************************)
SubMid == sub_out # EmptyText

NextBlock == MatchText(sub_rest, SubMid)

\* a callback that asks about every block in the mode individual
NextNeedsPrompt_any_block ==
    /\ pc = "sub"
    /\ HasMatch(sub_rest, SubMid)
    /\ mode # "all"

NextNeedsPrompt ==
    /\ pc = "sub"
    /\ HasMatch(sub_rest, SubMid)
    /\ mode # "all"
    /\ ~NeedsFixing(_deconstruct_block(NextBlock).lang)

\* the replacement r of the match from line i to the fence of line j
Substitute(r, i, j, answer) ==
    /\ block_count' = block_count + 1
    /\ sub_out' = Glue(sub_out, SubSeq(sub_rest, 1, i - 1) \o r.out)
    /\ sub_rest' = <<Tail(sub_rest[j])>> \o SubSeq(sub_rest, j + 1, Len(sub_rest))
    /\ blocks' = Append(blocks,
                        r @@ [number |-> block_count + 1, run |-> run_no,
                              answer |-> answer])

ReplaceBlock ==
    /\ pc = "sub"
    /\ HasMatch(sub_rest, SubMid)
    /\ \E answer \in (IF NextNeedsPrompt THEN BlockAnswers ELSE { <<>> }) :
         Substitute(_replacement_callback(NextBlock, mode, target_lang_all,
                                          default_lang, answer),
                    MatchStart(sub_rest, SubMid), MatchEnd(sub_rest, SubMid), answer)
    /\ UNCHANGED <<guiVars, fnVars, pc, input, cfgVars, scanVars, final_text, log, run_no, file>>

ProcessedText == Glue(sub_out, sub_rest)

(***************************************************************************)
(* run: step 4, the final pass, and the return                             *)
(***************************************************************************)
FixUnterminated ==
    /\ pc = "sub"
    /\ ~HasMatch(sub_rest, SubMid)
    /\ final_text' = _fix_unterminated_blocks(ProcessedText)
    /\ log' = IF InBlockAtEnd(ProcessedText) THEN log \cup {"unterminated_fix"} ELSE log
    /\ pc' = "done"
    /\ UNCHANGED <<guiVars, fnVars, input, cfgVars, block_count, scanVars, sub_out, sub_rest, blocks,
                   run_no, file>>

(***************************************************************************)
(* process_file: the write of the result, and a second call on the file    *)
(* just written, answered at the first prompts as the first call was       *)
(***************************************************************************)
WriteOutput ==
    /\ pc = "done"
    /\ file' = final_text
    /\ pc' = "written"
    /\ UNCHANGED <<guiVars, fnVars, input, cfgVars, block_count, scanVars, subVars, log, blocks, run_no>>

\* KeyboardInterrupt at a prompt: not an Exception, so process_file lets it
\* through and nothing is written
Interrupt ==
    /\ pc \in {"mode", "config"} \/ NextNeedsPrompt
    /\ pc' = "aborted"
    /\ UNCHANGED <<guiVars, fnVars, input, cfgVars, block_count, scanVars, subVars, log, blocks,
                   run_no, file>>

Rerun ==
    /\ pc = "written"
    /\ run_no = 1
    /\ run_no' = 2
    /\ input' = file
    /\ block_count' = 0
    /\ log' = {}
    /\ pc' = "pre"
    /\ UNCHANGED <<guiVars, fnVars, cfgVars, scanVars, subVars, blocks, file>>

Next ==
    \/ ChooseMode
    \/ Configure
    \/ PreProcess
    \/ ScanLine
    \/ ScanEnd
    \/ ReplaceBlock
    \/ FixUnterminated
    \/ WriteOutput
    \/ Interrupt
    \/ Rerun

Spec == Init /\ [][Next]_vars

\* run on the documents made of fence lines and statements: blocks with a
\* known tag, with an unknown tag and with none
PromptLineSet == { <<Fence>>, <<Fence, "c">>, <<Fence, "x">>, <<"x", "=", "x">> }

PromptDocs == UNION {[1..n -> PromptLineSet] : n \in 1..MaxLines}

InitPrompts ==
    /\ RunStart
    /\ input \in PromptDocs
    /\ GuiStart
    /\ FnStart
    /\ enabled = {}
    /\ disk = {}
    /\ nblocks = 0
    /\ hlines = <<>>

SpecPrompts == InitPrompts /\ [][Next]_vars

\* the first two steps of run on their own, from the state in which the
\* prompts leave a run in the uniform mode
InitScan ==
    /\ input \in Docs
    /\ pc = "pre"
    /\ mode = "all"
    /\ target_lang_all = <<"c">>
    /\ default_lang = <<"c">>
    /\ block_count = 0
    /\ text = EmptyText
    /\ idx = 1
    /\ output_parts = <<>>
    /\ buffer = <<>>
    /\ in_block_type = "None"
    /\ sub_out = EmptyText
    /\ sub_rest = EmptyText
    /\ final_text = EmptyText
    /\ log = {}
    /\ blocks = <<>>
    /\ run_no = 1
    /\ file = <<>>
    /\ GuiStart
    /\ FnStart
    /\ enabled = {}
    /\ disk = {}
    /\ nblocks = 0
    /\ hlines = <<>>

NextScan ==
    \/ PreProcess
    \/ ScanLine
    \/ ScanEnd

SpecScan == InitScan /\ [][NextScan]_vars

(***************************************************************************)
(* The window's pipeline: process_files runs the five steps the operator   *)
(* ticked, each reading the file the step before it wrote.  A document is  *)
(* kept here by what the steps ask of it: how many code blocks the finder  *)
(* of process_code_blocks_gui (feishu2md.py) meets, and which lines are    *)
(* bold lines ("B", a candidate heading) or other lines ("P").             *)
(***************************************************************************)
MaxGuiBlocks == 2
MaxHeaderLines == 2
MaxLevel == 2

MaxCorrectorLines == 4

Steps == 1..5

\* step1_output .. step4_output, step5_output_dir
OutputOf(step) ==
    CASE step = 1 -> "md"
      [] step = 2 -> "cleaned"
      [] step = 3 -> "repaired"
      [] step = 4 -> "corrected"
      [] step = 5 -> "split"

Outputs == {OutputOf(step) : step \in Steps}

\* what the log shows of a step: its banner, and its line of success
Started(step) == "start_" \o OutputOf(step)

Ok(step) == "ok_" \o OutputOf(step)

GuiModes == {"all", "individual", "auto"}

HeaderDocs == UNION {[1..n -> {"B", "P"}] : n \in 0..MaxHeaderLines}

\* the levels HeaderLevelDialog offers
\* a dialog that offers level 1 whatever was answered
Levels_with_level_one(allow) == 1..MaxLevel

Levels(allow) == IF allow THEN 1..MaxLevel ELSE 2..MaxLevel

\* its other results: skip, cancel_all, or None when the window is closed
OtherResults == {"skip", "cancel_all", "None"}

\* the marks of a heading of a level
RECURSIVE Hashes(_)
Hashes(level) == IF level = 0 THEN "" ELSE "#" \o Hashes(level - 1)

InitGui ==
    /\ RunStart
    /\ input = EmptyText
    /\ GuiStart
    /\ FnStart
    /\ enabled \in SUBSET Steps
    /\ disk \in {{}, Outputs}
    /\ nblocks \in 0..MaxGuiBlocks
    /\ hlines \in HeaderDocs

stepVars == <<enabled, nblocks, hlines>>

blockVars == <<gmode, bidx, replaced>>

headerVars == <<hidx, new_lines, user_cancelled, allow_level_one, first_level_one_set>>

\* the outer handler of process_files: the error is logged and shown
Failed(step) ==
    /\ events' = events \cup {Started(step), "error", "failed"}
    /\ gpc' = "failed"
    /\ UNCHANGED <<disk, written>>

\* a step writes its output and logs its success
Succeeded(step, next) ==
    /\ events' = events \cup {Started(step), Ok(step)}
    /\ disk' = disk \cup {OutputOf(step)}
    /\ written' = written \cup {OutputOf(step)}
    /\ gpc' = next

Skipped(next) ==
    /\ gpc' = next
    /\ UNCHANGED <<disk, written, events>>

\* step 1: PandocConverter.convert, which raises when pandoc fails
Step1 ==
    /\ gpc = "step1"
    /\ IF 1 \in enabled
       THEN \E converted \in BOOLEAN :
               IF converted THEN Succeeded(1, "step2") ELSE Failed(1)
       ELSE Skipped("step2")
    /\ UNCHANGED <<runVars, fnVars, stepVars, blockVars, headerVars>>

\* step 2: MarkdownCleaner.clean, which leaves through sys.exit when its
\* input is missing; SystemExit is not an Exception, the thread ends
Step2 ==
    /\ gpc = "step2"
    /\ IF 2 \in enabled
       THEN IF OutputOf(1) \in disk
            THEN Succeeded(2, "step3")
            ELSE /\ events' = events \cup {Started(2)}
                 /\ gpc' = "exited"
                 /\ UNCHANGED <<disk, written>>
       ELSE Skipped("step3")
    /\ UNCHANGED <<runVars, fnVars, stepVars, blockVars, headerVars>>

\* step 3 up to the mode dialog: the file is read and the blocks are found;
\* without a block the content is returned and written at once
Step3 ==
    /\ gpc = "step3"
    /\ IF 3 \in enabled
       THEN IF OutputOf(2) \notin disk THEN Failed(3)
            ELSE IF nblocks = 0 THEN Succeeded(3, "step4")
            ELSE /\ events' = events \cup {Started(3)}
                 /\ gpc' = "mode_dialog"
                 /\ UNCHANGED <<disk, written>>
       ELSE Skipped("step4")
    /\ UNCHANGED <<runVars, fnVars, stepVars, blockVars, headerVars>>

\* the mode dialog: a button sets the mode; closing the window leaves it
\* None, process_code_blocks_gui returns the content as it was, and
\* process_files writes it to step3_output and logs the success
ModeDialog ==
    /\ gpc = "mode_dialog"
    /\ \E choice \in GuiModes \cup {"None"} :
          /\ gmode' = choice
          /\ IF choice = "None"
             THEN /\ events' = events \cup {"mode_dialog_closed", Ok(3)}
                  /\ disk' = disk \cup {OutputOf(3)}
                  /\ written' = written \cup {OutputOf(3)}
                  /\ gpc' = "step4"
             ELSE /\ gpc' = "blocks"
                  /\ UNCHANGED <<disk, written, events>>
    /\ UNCHANGED <<runVars, fnVars, stepVars, bidx, replaced, headerVars>>

\* the loop over the blocks: in the modes all and auto every block is
\* replaced; in the mode individual the language dialog of a block may
\* return None, and the block is skipped
BlockDialog ==
    /\ gpc = "blocks"
    /\ bidx <= nblocks
    /\ \E skip \in (IF gmode = "individual" THEN BOOLEAN ELSE {FALSE}) :
          replaced' = IF skip THEN replaced ELSE replaced \cup {bidx}
    /\ bidx' = bidx + 1
    /\ UNCHANGED <<runVars, fnVars, stepVars, gpc, disk, written, events, gmode, headerVars>>

Step3Write ==
    /\ gpc = "blocks"
    /\ bidx > nblocks
    /\ Succeeded(3, "step4")
    /\ UNCHANGED <<runVars, fnVars, stepVars, blockVars, headerVars>>

\* step 4 up to the loop of correct: the constructor raises
\* FileNotFoundError when step3_output is missing
Step4 ==
    /\ gpc = "step4"
    /\ IF 4 \in enabled
       THEN IF OutputOf(3) \notin disk THEN Failed(4)
            ELSE /\ events' = events \cup {Started(4)}
                 /\ gpc' = "correct"
                 /\ UNCHANGED <<disk, written>>
       ELSE Skipped("step5")
    /\ UNCHANGED <<runVars, fnVars, stepVars, blockVars, headerVars>>

\* _ask_to_disable_level_one: Yes, No or Cancel (None)
LevelOneAnswers == {"yes", "no", "None"}

\* one line of correct, with the dialog of _get_corrected_line and the
\* question after the first heading of level 1
HeaderLine ==
    /\ gpc = "correct"
    /\ hidx <= Len(hlines)
    /\ IF user_cancelled \/ hlines[hidx] # "B"
       THEN /\ new_lines' = Append(new_lines, hlines[hidx])
            /\ UNCHANGED <<user_cancelled, allow_level_one, first_level_one_set>>
       ELSE \/ \E level \in Levels(allow_level_one) :
                  /\ new_lines' = Append(new_lines, Hashes(level))
                  /\ IF level = 1 /\ ~first_level_one_set
                     THEN /\ first_level_one_set' = TRUE
                          /\ \E answer \in LevelOneAnswers :
                                /\ user_cancelled' = (answer = "None")
                                /\ allow_level_one' = (answer # "no")
                     ELSE UNCHANGED <<user_cancelled, allow_level_one,
                                      first_level_one_set>>
            \/ \E result \in OtherResults :
                  /\ new_lines' = Append(new_lines, hlines[hidx])
                  /\ user_cancelled' = (result = "cancel_all")
                  /\ UNCHANGED <<allow_level_one, first_level_one_set>>
    /\ hidx' = hidx + 1
    /\ UNCHANGED <<runVars, fnVars, stepVars, gpc, disk, written, events, blockVars>>

\* the end of correct: InterruptedError before the write when the user
\* cancelled; process_files logs the cancellation and goes on
CorrectEnd ==
    /\ gpc = "correct"
    /\ hidx > Len(hlines)
    /\ IF user_cancelled
       THEN /\ events' = events \cup {"header_cancelled"}
            /\ gpc' = "step5"
            /\ UNCHANGED <<disk, written>>
       ELSE Succeeded(4, "step5")
    /\ UNCHANGED <<runVars, fnVars, stepVars, blockVars, headerVars>>

\* step 5: MarkdownSplitter raises FileNotFoundError when step4_output is
\* missing
Step5 ==
    /\ gpc = "step5"
    /\ IF 5 \in enabled
       THEN IF OutputOf(4) \notin disk THEN Failed(5)
            ELSE Succeeded(5, "finish")
       ELSE Skipped("finish")
    /\ UNCHANGED <<runVars, fnVars, stepVars, blockVars, headerVars>>

\* the end of process_files: all steps are reported as done
Finish ==
    /\ gpc = "finish"
    /\ events' = events \cup {"all_done"}
    /\ gpc' = "completed"
    /\ UNCHANGED <<runVars, fnVars, stepVars, disk, written, blockVars, headerVars>>

NextGui ==
    \/ Step1
    \/ Step2
    \/ Step3
    \/ ModeDialog
    \/ BlockDialog
    \/ Step3Write
    \/ Step4
    \/ HeaderLine
    \/ CorrectEnd
    \/ Step5
    \/ Finish

SpecGui == InitGui /\ [][NextGui]_vars

(***************************************************************************)
(* The two header correctors on their own (markdown_setting.py):           *)
(* GuiBoldHeaderCorrector.correct, from the state in which step 4 calls    *)
(* it, and BoldHeaderCorrector.correct of the command line.  A line is B,  *)
(* a bold line with text, or P, any other line.                            *)
(***************************************************************************)
CorrectorDocs == UNION {[1..n -> {"B", "P"}] : n \in 0..MaxCorrectorLines}

InitHeaders ==
    /\ RunStart
    /\ input = EmptyText
    /\ FnStart
    /\ written = {}
    /\ gmode = "None"
    /\ bidx = 1
    /\ replaced = {}
    /\ hidx = 1
    /\ new_lines = <<>>
    /\ user_cancelled = FALSE
    /\ allow_level_one = TRUE
    /\ first_level_one_set = FALSE
    /\ nblocks = 0
    /\ hlines \in CorrectorDocs
    /\ \/ gpc = "correct" /\ enabled = {4} /\ disk = Outputs /\ events = {Started(4)}
       \/ gpc = "cli" /\ enabled = {} /\ disk = {} /\ events = {}

\* the answers _ask_to_disable_level_one_cli leaves its loop with
CliLevelOneAnswers == {"yes", "no"}

\* one line of BoldHeaderCorrector.correct: the level typed at the prompt
\* of _get_corrected_line_cli, asked again until it is valid or empty, and
\* the question after the first heading of level 1
CliHeaderLine ==
    /\ gpc = "cli"
    /\ hidx <= Len(hlines)
    /\ IF hlines[hidx] # "B"
       THEN /\ new_lines' = Append(new_lines, hlines[hidx])
            /\ UNCHANGED <<allow_level_one, first_level_one_set>>
       ELSE \/ \E level \in Levels(allow_level_one) :
                  /\ new_lines' = Append(new_lines, Hashes(level))
                  /\ IF level = 1 /\ ~first_level_one_set
                     THEN /\ first_level_one_set' = TRUE
                          /\ \E answer \in CliLevelOneAnswers :
                                allow_level_one' = (answer # "no")
                     ELSE UNCHANGED <<allow_level_one, first_level_one_set>>
            \/ /\ new_lines' = Append(new_lines, hlines[hidx])
               /\ UNCHANGED <<allow_level_one, first_level_one_set>>
    /\ hidx' = hidx + 1
    /\ UNCHANGED <<runVars, fnVars, stepVars, gpc, disk, written, events, blockVars,
                   user_cancelled>>

\* the end of BoldHeaderCorrector.correct: the file _corrected is written
CliEnd ==
    /\ gpc = "cli"
    /\ hidx > Len(hlines)
    /\ disk' = disk \cup {OutputOf(4)}
    /\ written' = written \cup {OutputOf(4)}
    /\ gpc' = "cli_done"
    /\ UNCHANGED <<runVars, fnVars, stepVars, events, blockVars, headerVars>>

NextHeaders ==
    \/ HeaderLine
    \/ CorrectEnd
    \/ CliHeaderLine
    \/ CliEnd

SpecHeaders == InitHeaders /\ [][NextHeaders]_vars

(***************************************************************************)
(* MarkdownCleaner (markdown_cleaner.py).  The cleaner works on the whole  *)
(* body of a block with patterns that run over line breaks, so a body is   *)
(* one sequence of characters here, NL being the line break.               *)
(***************************************************************************)
NL == "\n"

\* \s
IsWhite(ch) == ch \in {" ", NL}

\* first position from p on that holds no white space
RECURSIVE SkipWhite(_, _)
SkipWhite(s, p) ==
    IF p <= Len(s) /\ IsWhite(s[p]) THEN SkipWhite(s, p + 1) ELSE p

\* str.strip
RECURSIVE StripWhite(_)
StripWhite(s) ==
    IF s = <<>> THEN s
    ELSE IF IsWhite(Head(s)) THEN StripWhite(Tail(s))
    ELSE IF IsWhite(s[Len(s)]) THEN StripWhite(SubSeq(s, 1, Len(s) - 1))
    ELSE s

At(s, p, word) ==
    p + Len(word) - 1 <= Len(s) /\ SubSeq(s, p, p + Len(word) - 1) = word

\* \s*$ with MULTILINE, tried at p: the position after the match, 0 when
\* there is none.  The white space is taken to the end of the text, or else
\* given back to the last line break of the run.
DollarAfter(s, p) ==
    IF SkipWhite(s, p) > Len(s) THEN Len(s) + 1
    ELSE IF \E k \in p..(SkipWhite(s, p) - 1) : s[k] = NL
         THEN CHOOSE k \in p..(SkipWhite(s, p) - 1) :
                  s[k] = NL /\ \A j \in (k + 1)..(SkipWhite(s, p) - 1) : s[j] # NL
         ELSE 0

\* step 1: re.sub of \\\s*$ by the empty string
RECURSIVE RemoveLineEndBackslashes(_, _)
RemoveLineEndBackslashes(s, p) ==
    IF p > Len(s) THEN <<>>
    ELSE IF s[p] = Backslash /\ DollarAfter(s, p + 1) > 0
         THEN RemoveLineEndBackslashes(s, DollarAfter(s, p + 1))
         ELSE <<s[p]>> \o RemoveLineEndBackslashes(s, p + 1)

\* _start and _end, the same two alternatives in either order: the last
\* position of the garbled comment delimiter that starts at p, 0 when none
DelimiterEnd(s, p) ==
    IF At(s, p, <<"*">>) /\ At(s, SkipWhite(s, p + 1), <<"/", "*">>)
    THEN SkipWhite(s, p + 1) + 1
    ELSE IF At(s, p, <<"*", "/">>) /\ At(s, SkipWhite(s, p + 2), <<"*">>)
         THEN SkipWhite(s, p + 2)
         ELSE 0

\* \s*(_end)\s*$ tried after a content that stops at e
ClosesAfter(s, e) ==
    /\ DelimiterEnd(s, SkipWhite(s, e + 1)) > 0
    /\ DollarAfter(s, DelimiterEnd(s, SkipWhite(s, e + 1)) + 1) > 0

IsLineStart(s, p) == p = 1 \/ s[p - 1] = NL

\* _MALFORMED_COMMENT_PATTERN tried at the line start p
MalformedAt(s, p) ==
    /\ IsLineStart(s, p)
    /\ DelimiterEnd(s, SkipWhite(s, p)) > 0
    /\ \E e \in (SkipWhite(s, DelimiterEnd(s, SkipWhite(s, p)) + 1) - 1)..Len(s) :
           ClosesAfter(s, e)

\* the first position of group 2, and the last one (the content is lazy)
ContentStart(s, p) == SkipWhite(s, DelimiterEnd(s, SkipWhite(s, p)) + 1)

ContentEnd(s, p) ==
    Min({e \in (ContentStart(s, p) - 1)..Len(s) : ClosesAfter(s, e)})

\* step 2: _MALFORMED_COMMENT_PATTERN.sub(_clean_malformed_comment, ...)
RECURSIVE _clean_malformed_comment(_, _)
_clean_malformed_comment(s, p) ==
    IF p > Len(s) THEN <<>>
    ELSE IF MalformedAt(s, p)
         THEN <<"/", "*", " ">>
              \o StripWhite(SubSeq(s, ContentStart(s, p), ContentEnd(s, p)))
              \o <<" ", "*", "/">>
              \o _clean_malformed_comment(s,
                     DollarAfter(s, DelimiterEnd(s,
                         SkipWhite(s, ContentEnd(s, p) + 1)) + 1))
         ELSE <<s[p]>> \o _clean_malformed_comment(s, p + 1)

\* the last position of the line that holds position p
RECURSIVE LineEnd(_, _)
LineEnd(s, p) ==
    IF p > Len(s) \/ s[p] = NL THEN p - 1 ELSE LineEnd(s, p + 1)

\* _SINGLE_LINE_COMMENT_EMPHASIS_PATTERN tried at the line start p: the
\* position of the closing star, 0 when there is no match.  The star is the
\* last one of the comment's line that only white space follows.
EmphasisClose(s, p) ==
    IF /\ IsLineStart(s, p)
       /\ At(s, SkipWhite(s, p), <<"*", "/", "/">>)
       /\ \E q \in (SkipWhite(s, p) + 3)..LineEnd(s, SkipWhite(s, p)) :
              s[q] = "*" /\ DollarAfter(s, q + 1) > 0
    THEN CHOOSE q \in (SkipWhite(s, p) + 3)..LineEnd(s, SkipWhite(s, p)) :
             /\ s[q] = "*" /\ DollarAfter(s, q + 1) > 0
             /\ \A r \in (q + 1)..LineEnd(s, SkipWhite(s, p)) :
                    ~(s[r] = "*" /\ DollarAfter(s, r + 1) > 0)
    ELSE 0

\* step 3: the stars around a line comment are removed
RECURSIVE UnwrapLineComments(_, _)
UnwrapLineComments(s, p) ==
    IF p > Len(s) THEN <<>>
    ELSE IF EmphasisClose(s, p) > 0
         THEN SubSeq(s, SkipWhite(s, p) + 1, EmphasisClose(s, p) - 1)
              \o UnwrapLineComments(s, DollarAfter(s, EmphasisClose(s, p) + 1))
         ELSE <<s[p]>> \o UnwrapLineComments(s, p + 1)

\* step 4: the escaped square brackets
UnescapeBrackets(s) ==
    Replace(Replace(s, <<Backslash, "[">>, <<"[">>), <<Backslash, "]">>, <<"]">>)

\* step 5: re.sub of \*\*(.*?)\*\* by its group, DOTALL
RECURSIVE RemoveBold(_, _)
RemoveBold(s, p) ==
    IF p > Len(s) THEN <<>>
    ELSE IF At(s, p, <<"*", "*">>)
            /\ \E q \in (p + 2)..Len(s) : At(s, q, <<"*", "*">>)
         THEN SubSeq(s, p + 2,
                     Min({q \in (p + 2)..Len(s) : At(s, q, <<"*", "*">>)}) - 1)
              \o RemoveBold(s,
                     Min({q \in (p + 2)..Len(s) : At(s, q, <<"*", "*">>)}) + 2)
         ELSE <<s[p]>> \o RemoveBold(s, p + 1)

\* comment_pattern tried at p: the last position of the comment, 0 when
\* none starts at p.  A line comment runs to the end of the text (DOTALL).
CommentEnd(s, p) ==
    IF At(s, p, <<"/", "*">>) /\ \E q \in (p + 2)..Len(s) : At(s, q, <<"*", "/">>)
    THEN Min({q \in (p + 2)..Len(s) : At(s, q, <<"*", "/">>)}) + 1
    ELSE IF At(s, p, <<"/", "/">>) THEN Len(s) ELSE 0

\* the italic pattern (a star, one or more characters that are neither a
\* star nor Chinese, a star) past its opening star: the position of the
\* closing star, 0 when there is none; n characters were taken so far, a
\* comment counting as the placeholder that stands for it
RECURSIVE ItalicClose(_, _, _)
ItalicClose(s, k, n) ==
    IF k > Len(s) THEN 0
    ELSE IF CommentEnd(s, k) > 0 THEN ItalicClose(s, CommentEnd(s, k) + 1, n + 1)
    ELSE IF s[k] = "*" THEN (IF n > 0 THEN k ELSE 0)
    ELSE IF s[k] = Marker THEN 0
    ELSE ItalicClose(s, k + 1, n + 1)

\* step 6: the comments are put aside, the italic stars are removed from
\* what is left, the comments are put back
RECURSIVE RemoveItalic(_, _)
RemoveItalic(s, p) ==
    IF p > Len(s) THEN <<>>
    ELSE IF CommentEnd(s, p) > 0
         THEN SubSeq(s, p, CommentEnd(s, p)) \o RemoveItalic(s, CommentEnd(s, p) + 1)
    ELSE IF s[p] = "*" /\ ItalicClose(s, p + 1, 0) > 0
         THEN SubSeq(s, p + 1, ItalicClose(s, p + 1, 0) - 1)
              \o RemoveItalic(s, ItalicClose(s, p + 1, 0) + 1)
    ELSE <<s[p]>> \o RemoveItalic(s, p + 1)

\* steps 1 to 6 of _clean_code_block_content
NormalizeContent(content) ==
    RemoveItalic(
        RemoveBold(
            UnescapeBrackets(
                UnwrapLineComments(
                    _clean_malformed_comment(
                        RemoveLineEndBackslashes(content, 1), 1), 1)), 1), 1)

\* re.sub of \s*word\s* by new, from p on
RECURSIVE SubSpaced(_, _, _, _)
SubSpaced(s, p, word, new) ==
    IF p > Len(s) THEN <<>>
    ELSE IF At(s, SkipWhite(s, p), word)
         THEN new \o SubSpaced(s, SkipWhite(s, SkipWhite(s, p) + Len(word)), word, new)
         ELSE <<s[p]>> \o SubSpaced(s, p + 1, word, new)

operators ==
    << <<"=", "=">>, <<"!", "=">>, <<"<", "=">>, <<">", "=">>, <<"&", "&">>,
       <<"|", "|">>, <<"+", "=">>, <<"-", "=">>, <<"*", "=">>, <<"/", "=">>,
       <<"%", "=">>, <<"&", "=">>, <<"|", "=">>, <<"^", "=">>,
       <<"<", "<", "=">>, <<">", ">", "=">>, <<"=">>, <<">">>, <<"<">>,
       <<"+">>, <<"-">>, <<"/">>, <<"%">>, <<"&">>, <<"|">>, <<"^">>, <<"?">>,
       <<":">> >>

\* the loop over operators, from the i-th on
RECURSIVE SpaceEach(_, _)
SpaceEach(part, i) ==
    IF i > Len(operators) THEN part
    ELSE SpaceEach(SubSpaced(part, 1, operators[i],
                             <<" ">> \o operators[i] \o <<" ">>), i + 1)

Keywords == { <<"i", "f">>, <<"f", "o", "r">>, <<"w", "h", "i", "l", "e">>,
              <<"s", "w", "i", "t", "c", "h">> }

\* \b(if|for|while|switch)\s*\( tried at p
KeywordAt(s, p, kw) ==
    /\ p = 1 \/ ~IsWord(s[p - 1])
    /\ At(s, p, kw)
    /\ At(s, SkipWhite(s, p + Len(kw)), <<"(">>)

RECURSIVE SpaceKeywords(_, _)
SpaceKeywords(s, p) ==
    IF p > Len(s) THEN <<>>
    ELSE IF \E kw \in Keywords : KeywordAt(s, p, kw)
         THEN LET kw == CHOOSE k \in Keywords : KeywordAt(s, p, k)
              IN kw \o <<" ", "(">>
                 \o SpaceKeywords(s, SkipWhite(s, p + Len(kw)) + 1)
         ELSE <<s[p]>> \o SpaceKeywords(s, p + 1)

\* what the loop of _format_line_spacing does to a part outside the strings
FormatPart(part) ==
    SpaceKeywords(
        Replace(
            SubSpaced(
                SubSpaced(
                    SpaceEach(Replace(part, <<"-", ">">>, <<"TEMP_ARROW">>), 1),
                    1, <<",">>, <<",", " ">>),
                1, <<";">>, <<";", " ">>),
            <<"TEMP_ARROW">>, <<"-", ">">>),
        1)

Quote == "\""

\* the first double quote from p on, 0 when there is none
NextQuote(line, p) ==
    IF \E k \in p..Len(line) : line[k] = Quote
    THEN Min({k \in p..Len(line) : line[k] = Quote})
    ELSE 0

\* re.split on (".*?") and the loop over the parts: the odd parts are the
\* string literals
RECURSIVE FormatParts(_, _)
FormatParts(line, p) ==
    IF NextQuote(line, p) > 0 /\ NextQuote(line, NextQuote(line, p) + 1) > 0
    THEN FormatPart(SubSeq(line, p, NextQuote(line, p) - 1))
         \o SubSeq(line, NextQuote(line, p), NextQuote(line, NextQuote(line, p) + 1))
         \o FormatParts(line, NextQuote(line, NextQuote(line, p) + 1) + 1)
    ELSE FormatPart(SubSeq(line, p, Len(line)))

\* re.sub of \s{2,} by one space
RECURSIVE CollapseWhite(_, _)
CollapseWhite(s, p) ==
    IF p > Len(s) THEN <<>>
    ELSE IF SkipWhite(s, p) >= p + 2
         THEN <<" ">> \o CollapseWhite(s, SkipWhite(s, p))
         ELSE <<s[p]>> \o CollapseWhite(s, p + 1)

_format_line_spacing(line) == StripWhite(CollapseWhite(FormatParts(line, 1), 1))

\* str.split on the line break
RECURSIVE SplitLines(_, _)
SplitLines(s, p) ==
    IF LineEnd(s, p) >= Len(s) THEN <<SubSeq(s, p, Len(s))>>
    ELSE <<SubSeq(s, p, LineEnd(s, p))>> \o SplitLines(s, LineEnd(s, p) + 2)

\* str.join with the line break
RECURSIVE JoinLines(_)
JoinLines(lines) ==
    IF lines = <<>> THEN <<>>
    ELSE IF Len(lines) = 1 THEN lines[1]
    ELSE lines[1] \o <<NL>> \o JoinLines(Tail(lines))

EndsWith(s, word) ==
    Len(s) >= Len(word) /\ SubSeq(s, Len(s) - Len(word) + 1, Len(s)) = word

indent_size == 4

RECURSIVE IndentFrom(_, _, _)

\* a line that is not blank, at its level; the level of the next line
\* an indentation of one space for each level
IndentLine_single_space(lines, i, indent_level) ==
    << Spaces(indent_level)
       \o _format_line_spacing(StripWhite(lines[i])) >>
    \o IndentFrom(lines, i + 1,
                  IF \/ EndsWith(StripWhite(lines[i]), <<"{">>)
                     \/ EndsWith(StripWhite(lines[i]), <<":">>)
                  THEN indent_level + 1 ELSE indent_level)

IndentLine(lines, i, indent_level) ==
    << Spaces(indent_level * indent_size)
       \o _format_line_spacing(StripWhite(lines[i])) >>
    \o IndentFrom(lines, i + 1,
                  IF \/ EndsWith(StripWhite(lines[i]), <<"{">>)
                     \/ EndsWith(StripWhite(lines[i]), <<":">>)
                  THEN indent_level + 1 ELSE indent_level)

\* the loop of _format_code_indentation, from the i-th line on
IndentFrom(lines, i, indent_level) ==
    IF i > Len(lines) THEN <<>>
    ELSE IF StripWhite(lines[i]) = <<>>
         THEN << <<>> >> \o IndentFrom(lines, i + 1, indent_level)
    ELSE IF \/ StartsWith(StripWhite(lines[i]), <<"}">>)
            \/ StartsWith(StripWhite(lines[i]), <<"c", "a", "s", "e", " ">>)
            \/ StartsWith(StripWhite(lines[i]),
                          <<"d", "e", "f", "a", "u", "l", "t", ":">>)
         THEN IndentLine(lines, i, Max(0, indent_level - 1))
    ELSE IndentLine(lines, i, indent_level)

_format_code_indentation(code_text) ==
    JoinLines(IndentFrom(SplitLines(code_text, 1), 1, 0))

c_family_langs ==
    { <<"c">>, <<"c", "p", "p">>, <<"c", "+", "+">>, <<"j", "a", "v", "a">>,
      <<"j", "a", "v", "a", "s", "c", "r", "i", "p", "t">>, <<"j", "s">>,
      <<"c", "#">>, <<"c", "s">> }

\* lang and content are the two groups of _CODE_BLOCK_PATTERN
_clean_code_block_content(lang, content) ==
    <<Fence>> \o LowerStr(lang) \o <<NL>>
    \o StripWhite(IF LowerStr(lang) \in c_family_langs
                  THEN _format_code_indentation(NormalizeContent(content))
                  ELSE NormalizeContent(content))
    \o <<NL, Fence>>

(***************************************************************************)
(* The functions called on their own: one call, from the argument drawn at *)
(* the start to the value returned.                                        *)
(***************************************************************************)
MaxFnLines == 3

MaxBraceLines == 5

\* documents with fences fused on a line
FusedLineSet ==
    { <<Fence>>, <<Fence, Fence>>, <<Fence, Fence, Fence>>,
      <<Fence, " ", Fence, "x">>, <<"x">>, <<>> }

FusedDocs == UNION {[1..n -> FusedLineSet] : n \in 1..MaxFnLines}

\* blocks as the finder hands them over: a first line, at most
\* MaxFnLines - 1 body lines, the closing fence
FirstLineSet ==
    { <<Fence>>, <<Fence, "c">>, <<Fence, "C">>, <<Fence, "c", " ", "x">>,
      <<Fence, "x">>, <<Fence, "X", " ", " ", "x", "=", "x", " ">>,
      <<Fence, "x", "=", " ", "c">>, <<Fence, Marker>>, <<Fence, Marker, " ", "x">>,
      <<Fence, " ", "x">> }

BodyLineSet == { <<>>, <<"c">>, <<" ", "x">>, <<"x", "=", "x">> }

FencedBlocks ==
    UNION {{<<first>> \o body \o << <<Fence>> >> :
               first \in FirstLineSet, body \in [1..n -> BodyLineSet]} :
           n \in 0..(MaxFnLines - 1)}

\* the lines buffered between two dashed delimiters
DashedLineSet == { <<>>, <<"c">>, <<"x">>, <<"x", "=", "x">>, <<Fence>> }

DashedBuffers == UNION {[1..n -> DashedLineSet] : n \in 1..(MaxFnLines - 1)}

\* bodies for the normalisation steps of the cleaner: comments, emphasis,
\* garbled delimiters, a trailing backslash, escaped brackets
CommentLineSet ==
    { <<"/", "*", "*", " ", "x", " ", "*", " ", "x", " ", "*", "/">>,
      <<"/", "*", "x", "*", "/">>,
      <<"*", "*", "x", "*", "*">>,
      <<"*", "x", "*">>,
      <<"*", Marker, "*">>,
      <<"*", "/", "/", "x", "*">>,
      <<"/", "/", "*", "x", "*">>,
      <<"*", "/", "*", " ", "x", " ", "*", "/", "*">>,
      <<"x", Backslash>>,
      <<Backslash, "[", "x", Backslash, "]">>,
      <<"x">>,
      <<>> }

CommentBodies ==
    UNION {{JoinLines(d) : d \in [1..n -> CommentLineSet]} : n \in 1..MaxFnLines}

\* lines for the formatters: operators, string literals, a dash rule,
\* braces, a keyword
FormatLineSet ==
    { <<"x", "=", "x">>,
      <<"x", "=", "=", "x">>,
      <<"x", "+", "=", "x">>,
      <<"x", "+", "+">>,
      <<"x", "-", ">", "x">>,
      <<"x", "=", Quote, "x", "=", "x", Quote>>,
      <<Quote, "x", " ", " ", "x", Quote>>,
      <<"-", "-", "-">>,
      <<" ", "-", "-", "-", "-">>,
      <<"i", "f", "(", "x", ")", "{">>,
      <<"}">>,
      <<"x", ",", "x", ";">>,
      <<"c", "a", "s", "e", " ", "x", ":">>,
      <<>> }

\* line by line, as the repair takes a body
FormatTexts == UNION {[1..n -> FormatLineSet] : n \in 1..(MaxFnLines - 1)}

\* in one piece, as the cleaner takes a body
FormatBodies == {JoinLines(t) : t \in FormatTexts}

\* bodies of braces and statements, nested and unbalanced
BraceLineSet == { <<"{">>, <<"}">>, <<"x">>, <<"}", "}">> }

BraceTexts == UNION {[1..n -> BraceLineSet] : n \in 1..MaxBraceLines}

BlockLangs == { <<>>, <<"c">>, <<"C">>, <<"x">>, <<"c", " ">> }

FormatBlocks ==
    {<<first>> \o body \o << <<Fence>> >> :
        first \in { <<Fence>>, <<Fence, "c">>, <<Fence, "j", "s">> },
        body \in FormatTexts}

\* the calls of the callback: what run has set when it is called.  In mode
\* all default_lang is the value __init__ gave it.
CallbackArgs ==
    [block : FormatBlocks, default_lang : {<<"c">>, <<"x">>},
     mode : {"individual"}, target_lang_all : {<<>>}, answer : {<<>>}]
    \cup [block : FencedBlocks, default_lang : {<<"x">>},
          mode : {"individual"}, target_lang_all : {<<>>}, answer : {<<"j", "s">>}]
    \cup [block : FencedBlocks, default_lang : {<<"c">>},
          mode : {"all"}, target_lang_all : {<<"x">>}, answer : {<<>>}]

InitFn ==
    /\ RunStart
    /\ input = EmptyText
    /\ GuiStart
    /\ enabled = {}
    /\ disk = {}
    /\ nblocks = 0
    /\ hlines = <<>>
    /\ res = <<>>
    /\ fpc = "call"
    /\ \/ fname = "_pre_process_fused_blocks" /\ arg \in FusedDocs
       \/ fname = "_deconstruct_block" /\ arg \in FencedBlocks
       \/ fname = "_process_dashed_content" /\ arg \in DashedBuffers
       \/ /\ fname = "_clean_code_block_content"
          /\ arg \in [lang : BlockLangs, content : FormatBodies]
                     \cup [lang : {<<"x">>}, content : CommentBodies]
       \/ fname = "_format_line_spacing" /\ arg \in FormatLineSet
       \/ /\ fname = "_format_code_indentation"
          /\ arg \in FormatBodies \cup {JoinLines(t) : t \in BraceTexts}
       \/ fname = "_format_code_content" /\ arg \in FormatTexts \cup BraceTexts
       \/ fname = "_clean_code_content" /\ arg \in FormatTexts
       \/ fname = "_replacement_callback" /\ arg \in CallbackArgs

Call(f) == fpc = "call" /\ fname = f

Return(value) ==
    /\ res' = value
    /\ fpc' = "return"
    /\ UNCHANGED <<runVars, guiVars, fname, arg>>

Returned_from(f) == fpc = "return" /\ fname = f

CallPreProcess ==
    /\ Call("_pre_process_fused_blocks")
    /\ Return(_pre_process_fused_blocks(arg))

CallDeconstruct ==
    /\ Call("_deconstruct_block")
    /\ Return(_deconstruct_block(arg))

CallDashed ==
    /\ Call("_process_dashed_content")
    /\ Return(_process_dashed_content(arg))

CallCleanBlock ==
    /\ Call("_clean_code_block_content")
    /\ Return(_clean_code_block_content(arg.lang, arg.content))

CallLineSpacing ==
    /\ Call("_format_line_spacing")
    /\ Return(_format_line_spacing(arg))

CallIndentation ==
    /\ Call("_format_code_indentation")
    /\ Return(_format_code_indentation(arg))

CallFormatCode ==
    /\ Call("_format_code_content")
    /\ Return(_format_code_content(arg))

CallCleanCode ==
    /\ Call("_clean_code_content")
    /\ Return(_clean_code_content(arg))

\* the callback of a run in the individual mode: the default language was
\* chosen at the start, and the answer to the prompt of a block is empty
CallReplacement ==
    /\ Call("_replacement_callback")
    /\ Return(_replacement_callback(arg.block, arg.mode, arg.target_lang_all,
                                    arg.default_lang, arg.answer))

NextFn ==
    \/ CallPreProcess
    \/ CallDeconstruct
    \/ CallDashed
    \/ CallCleanBlock
    \/ CallLineSpacing
    \/ CallIndentation
    \/ CallFormatCode
    \/ CallCleanCode
    \/ CallReplacement

SpecFn == InitFn /\ [][NextFn]_vars

(***************************************************************************)
(* Properties                                                              *)
(***************************************************************************)
Returned == pc \in {"done", "written"}

\* the text ends with a fence line and its line break
EndsWithCloser(t) ==
    Len(t) >= 2 /\ t[Len(t)] = <<>> /\ t[Len(t) - 1] = <<Fence>>

\* C1: when the input document holds an odd number of standard fence
\* delimiter lines, the text returned by run holds an even number of them,
\* and a closing fence appended by the final pass is the last line of the
\* returned text.
C1_OddInputEvenOutput ==
    (Returned /\ InBlockAtEnd(input)) =>
        /\ FenceCount(final_text) % 2 = 0
        /\ ("unterminated_fix" \in log => EndsWithCloser(final_text))

C1_Witness ==
    /\ Returned
    /\ InBlockAtEnd(input)
    /\ "unterminated_fix" \in log
    /\ EndsWithCloser(final_text)
    /\ Len(final_text) > 3

\* a is b with some elements left out
RECURSIVE IsSubseqFrom(_, _, _, _)
IsSubseqFrom(a, i, b, j) ==
    IF i > Len(a) THEN TRUE
    ELSE IF j > Len(b) THEN FALSE
    ELSE IF a[i] = b[j] THEN IsSubseqFrom(a, i + 1, b, j + 1)
    ELSE IsSubseqFrom(a, i, b, j + 1)

IsSubseq(a, b) == IsSubseqFrom(a, 1, b, 1)

\* the lines the scanner appended to output_parts as plain text, in order
PlainLines(parts) ==
    LET plain == SelectSeq(parts, LAMBDA p : p.kind = "plain")
    IN [k \in 1..Len(plain) |-> plain[k].text[1]]

\* C2: every line the scanner classifies as plain text (read outside a block,
\* neither a standard fence delimiter nor a dashed delimiter) is a line of
\* the text run returns, unchanged, and the plain lines keep their order.
C2_PlainLinesPassThrough ==
    pc = "done" => IsSubseq(PlainLines(output_parts), final_text)

\* the part of a line before a // comment
CodePart(line) ==
    LET starts == {k \in 1..(Len(line) - 1) : line[k] = "/" /\ line[k + 1] = "/"}
    IN IF starts = {} THEN line
       ELSE SubSeq(line, 1, (CHOOSE k \in starts : \A j \in starts : k <= j) - 1)

RECURSIVE TokenCount(_, _)
TokenCount(lines, ch) ==
    IF lines = <<>> THEN 0
    ELSE Count(CodePart(Head(lines)), ch) + TokenCount(Tail(lines), ch)

TokenChars(lines) ==
    UNION { {CodePart(lines[k])[j] : j \in 1..Len(CodePart(lines[k]))} :
            k \in 1..Len(lines) } \ {" "}

\* the same characters, as many times each, outside white space and comments:
\* the least any reading of the tokens of a body asks for
SameTokens(a, b) ==
    \A ch \in TokenChars(a) \cup TokenChars(b) : TokenCount(a, ch) = TokenCount(b, ch)

\* C3: for a block whose tag is a recognized language and is kept (per-block
\* mode, empty answer), the finalized body holds the same non-whitespace,
\* non-comment tokens, as many times each, as the body the block came with:
\* cleaning and formatting neither delete nor invent tokens.
C3_TokensPreserved ==
    \A k \in 1..Len(blocks) :
        (blocks[k].lang \in KNOWN_LANGUAGES /\ blocks[k].prompted
            /\ blocks[k].answer = <<>>)
        => SameTokens(blocks[k].code, blocks[k].body)

Scanned == pc \in {"sub", "done", "written"}

\* the scan met a dashed delimiter outside a standard block
EnteredDashed ==
    \/ in_block_type = "dashed"
    \/ \E k \in 1..Len(output_parts) :
          output_parts[k].kind \in {"dashed", "rule", "dangling"}

\* the lines of the parts the scanner copied: plain lines and standard blocks
CopiedLines(parts) ==
    Flatten([k \in 1..Len(parts) |->
                IF parts[k].kind \in {"plain", "standard", "unterminated"}
                THEN parts[k].text ELSE <<>>])

MarkerLines(t) == Cardinality({k \in 1..Len(t) : Strip(t[k]) = <<Marker>>})

\* block k of the second call is a block the first call repaired and wrote
RepairedBefore(k) ==
    /\ blocks[k].run = 2
    /\ \E j \in 1..Len(blocks) :
          /\ blocks[j].run = 1
          /\ blocks[j].needs_fixing
          /\ blocks[j].out = blocks[k].raw

\* C5: the finalized body of a block whose parsed tag is __INVALID__,
\* __DEMO__ or empty begins with the placeholder marker, and a second call
\* of run on the output of the first adds no second marker line to a block
\* the first call repaired.
C5_MarkerOnce ==
    \A k \in 1..Len(blocks) :
        blocks[k].needs_fixing =>
            /\ StartsWith(blocks[k].body[1], <<Marker>>)
            /\ RepairedBefore(k) =>
                  MarkerLines(blocks[k].body) <= MarkerLines(blocks[k].raw)

\* C6: in uniform mode every block whose parsed tag is a recognized language
\* is emitted with the one target tag the operator supplied, whatever its
\* original tag or title, and that header line is a line of the text run
\* returns.
C6_UniformTag ==
    mode = "all" =>
        \A k \in 1..Len(blocks) :
            ~blocks[k].needs_fixing =>
                /\ blocks[k].out[1] = <<Fence>> \o target_lang_all
                /\ (pc = "done" /\ blocks[k].run = run_no) =>
                      \E n \in 1..Len(final_text) :
                          final_text[n] = <<Fence>> \o target_lang_all

C6_Witness ==
    /\ mode = "all"
    /\ pc = "done"
    /\ \E k \in 1..Len(blocks) :
          /\ ~blocks[k].needs_fixing
          /\ HasSpace(blocks[k].lang)
          /\ target_lang_all = <<"x">>
          /\ blocks[k].out[1] = <<Fence, "x">>

\* the body the pending prompt's block gets under an answer
BodyUnder(answer) ==
    _replacement_callback(NextBlock, mode, target_lang_all, default_lang, answer).body

\* C7: in per-block mode the answer to a block's prompt determines its tag:
\* an empty answer keeps the tag the block was parsed with, the answer none
\* gives an empty tag line, any other answer (trimmed, in lower case) is the
\* new tag; and the body emitted is the same whatever the answer.
C7_AnswerDecidesTag ==
    /\ \A k \in 1..Len(blocks) :
          blocks[k].prompted =>
              LET user_input == LowerStr(Strip(blocks[k].answer))
              IN /\ mode = "individual"
                 /\ user_input = <<>> =>
                       blocks[k].out[1] = <<Fence>> \o blocks[k].lang
                 /\ user_input = NoneWord => blocks[k].out[1] = <<Fence>>
                 /\ user_input \notin {<<>>, NoneWord} =>
                       blocks[k].out[1] = <<Fence>> \o user_input
    /\ NextNeedsPrompt =>
          \A answer \in BlockAnswers : BodyUnder(answer) = BodyUnder(<<>>)

C7_Witness ==
    /\ \E k \in 1..Len(blocks) :
          /\ blocks[k].prompted
          /\ blocks[k].answer = <<"C">>
          /\ HasSpace(blocks[k].lang)
          /\ blocks[k].out[1] = <<Fence, "c">>
    /\ \E k \in 1..Len(blocks) :
          /\ blocks[k].prompted
          /\ blocks[k].answer = NoneWord
          /\ blocks[k].lang # <<>>
          /\ blocks[k].out[1] = <<Fence>>

\* the lines buffered when the scan ended were handed to the callback as
\* (the start of) a block of this call
BufferRepaired ==
    \E k \in 1..Len(blocks) :
        /\ blocks[k].run = run_no
        /\ Len(blocks[k].raw) > Len(buffer)
        /\ SubSeq(blocks[k].raw, 1, Len(buffer)) = buffer

\* C10: when the scan ends inside a standard block, run returns, the
\* buffered lines are repaired as a code block like any other (tag resolved,
\* body cleaned), a closing fence is appended and a warning is reported.
C10_UnterminatedRepaired ==
    (pc = "done" /\ "unterminated_standard" \in log) =>
        /\ BufferRepaired
        /\ "unterminated_fix" \in log
        /\ EndsWithCloser(final_text)

\* C8: when the user cancels at a prompt of a step (the mode dialog of the
\* code-block step closed without a choice; cancel all in the heading
\* dialog, or Cancel in the level-one question, of the heading step), that
\* step writes no output file.
C8_CancelWritesNothing ==
    /\ "mode_dialog_closed" \in events => OutputOf(3) \notin written
    /\ user_cancelled => OutputOf(4) \notin written

\* C9: after a cancellation in a step of the pipeline of process_files no
\* later step is executed and the run is never reported as completed.
C9_CancelEndsRun ==
    /\ "mode_dialog_closed" \in events =>
          /\ Started(4) \notin events
          /\ Started(5) \notin events
          /\ "all_done" \notin events
    /\ user_cancelled =>
          /\ Started(5) \notin events
          /\ "all_done" \notin events

\* C11: when the scan ends inside a dashed block, whatever the number of
\* buffered lines (zero included), the text run returns holds a dash-rule
\* line followed by every buffered line, in order and as it was read.
C11_DanglingDashedReemitted ==
    (pc = "done" /\ in_block_type = "dashed") =>
        \E n \in 1..Len(final_text) :
            /\ final_text[n] = DashRule
            /\ n + Len(buffer) <= Len(final_text)
            /\ SubSeq(final_text, n + 1, n + Len(buffer)) = buffer

\* a fence followed on its line, after white space at most, by another fence
IsFusedLine(line) ==
    StartsWith(line, <<Fence>>) /\ StartsWith(LStrip(Tail(line)), <<Fence>>)

\* C12: after _pre_process_fused_blocks no line of the text is a fence
\* followed on the same line by another fence, however many fences were
\* fused on a line of the input.
C12_NoFusedLineLeft ==
    Returned_from("_pre_process_fused_blocks") =>
        \A k \in 1..Len(res) : ~IsFusedLine(res[k])

\* the first token after the opening fence of a block, and what follows it
\* on the line
FirstToken(block) == SubSeq(block[1], 2, NonSpaceRunEnd(block[1], 2))

AfterFirstToken(block) ==
    SubSeq(block[1], NonSpaceRunEnd(block[1], 2) + 1, Len(block[1]))

UnknownFirstToken(block) ==
    /\ FirstToken(block) # <<>>
    /\ LowerStr(FirstToken(block)) \notin KNOWN_LANGUAGES
    /\ LowerStr(FirstToken(block)) # <<Marker>>

\* C13: when the first token after the opening fence is not empty, not a
\* known language (in any case) and not the placeholder word,
\* _deconstruct_block returns the tag __INVALID__, and the body is the text
\* that follows the fence on its line (the token, then the trimmed rest
\* after one space) followed by every line between the fences, in order.
C13_InvalidTagKeepsContent ==
    (Returned_from("_deconstruct_block") /\ UnknownFirstToken(arg)) =>
        /\ res.lang = INVALID
        /\ res.code =
              << Strip(FirstToken(arg) \o <<" ">> \o Strip(AfterFirstToken(arg))) >>
              \o SubSeq(arg, 2, Len(arg) - 1)

C13_Witness ==
    /\ Returned_from("_deconstruct_block")
    /\ UnknownFirstToken(arg)
    /\ Strip(AfterFirstToken(arg)) # <<>>
    /\ Len(arg) = 4
    /\ Len(res.code) = 3
    /\ res.code[1] = <<"X", " ", "x", "=", "x">>

Occurs(word, s) == \E p \in 1..Len(s) : At(s, p, word)

\* the lines of a body that are one block comment with a star between its
\* delimiters
StarredComments(s) ==
    { SubSeq(s, p, LineEnd(s, p)) :
        p \in { q \in 1..Len(s) :
                  /\ IsLineStart(s, q)
                  /\ At(s, q, <<"/", "*">>)
                  /\ CommentEnd(s, q) = LineEnd(s, q)
                  /\ \E k \in (q + 2)..(LineEnd(s, q) - 2) : s[k] = "*" } }

\* C14: every block comment of the body that has stars inside is found as
\* it was, character for character, in what _clean_code_block_content
\* returns for a block whose body is only normalised (steps 1 to 6), whatever
\* else the body holds.
C14_StarredCommentsKept ==
    (Returned_from("_clean_code_block_content") /\ arg.lang = <<"x">>) =>
        \A comment \in StarredComments(arg.content) : Occurs(comment, res)

\* C15: a block whose tag is not in the brace family is not formatted: the
\* cleaner returns its body as the normalisation left it, and the repair
\* returns, for a block parsed and emitted with such a tag (or none), the
\* body that the formatter was given.
C15_FormatsBraceFamilyOnly ==
    /\ (Returned_from("_clean_code_block_content")
            /\ LowerStr(arg.lang) \notin c_family_langs) =>
           res = <<Fence>> \o LowerStr(arg.lang) \o <<NL>>
                 \o StripWhite(NormalizeContent(arg.content)) \o <<NL, Fence>>
    /\ (Returned_from("_replacement_callback")
            /\ res.lang \notin c_family_langs
            /\ res.target \notin c_family_langs) =>
           res.body = Finalize(arg.block, _deconstruct_block(arg.block),
                               _clean_code_content(res.code), "individual",
                               <<>>, arg.default_lang, <<>>).body

\* the lines of a body in one piece
LinesOf(body) == SplitLines(body, 1)

\* C16: a body line that is, once trimmed, three dashes or more comes out
\* of each formatter as it went in, at the same place: of _format_code_content
\* of the repair and of _format_code_indentation of the cleaner.
C16_DashRuleUntouched ==
    /\ Returned_from("_format_code_content") =>
           /\ Len(res) = Len(arg)
           /\ \A i \in 1..Len(arg) : IsDashRun(Strip(arg[i])) => res[i] = arg[i]
    /\ Returned_from("_format_code_indentation") =>
           /\ Len(LinesOf(res)) = Len(LinesOf(arg))
           /\ \A i \in 1..Len(LinesOf(arg)) :
                  IsDashRun(Strip(LinesOf(arg)[i])) => LinesOf(res)[i] = LinesOf(arg)[i]

\* the spans of a line between a double quote and the next one, as
\* re.split on (".*?") finds them from p on
RECURSIVE StringLiterals(_, _)
StringLiterals(line, p) ==
    IF NextQuote(line, p) > 0 /\ NextQuote(line, NextQuote(line, p) + 1) > 0
    THEN {SubSeq(line, NextQuote(line, p), NextQuote(line, NextQuote(line, p) + 1))}
         \cup StringLiterals(line, NextQuote(line, NextQuote(line, p) + 1) + 1)
    ELSE {}

\* C17: every string literal of a line is found, character for character,
\* in the line that the formatter returns: _format_line_spacing of the
\* cleaner, and _format_code_content of the repair line by line.
C17_StringLiteralsKept ==
    /\ Returned_from("_format_line_spacing") =>
           \A literal \in StringLiterals(arg, 1) : Occurs(literal, res)
    /\ Returned_from("_format_code_content") =>
           \A i \in 1..Len(arg) :
               \A literal \in StringLiterals(arg[i], 1) : Occurs(literal, res[i])

CompoundOperators ==
    { <<"=", "=">>, <<"!", "=">>, <<"<", "=">>, <<">", "=">>, <<"+", "=">>,
      <<"-", "=">>, <<"*", "=">>, <<"/", "=">>, <<"+", "+">>, <<"-", "-">>,
      <<"-", ">">> }

Occurrences(word, s) == Cardinality({p \in 1..Len(s) : At(s, p, word)})

\* a formatted line holds each compound operator as often as the line did
CompoundsKept(line, formatted) ==
    \A op \in CompoundOperators : Occurrences(op, formatted) >= Occurrences(op, line)

\* C18: the compound operators of a line (a dash rule aside) are still in
\* one piece, each as often as before, in the line that the formatter
\* returns: _format_line_spacing of the cleaner, and _format_code_content
\* of the repair line by line.
C18_CompoundOperatorsAtomic ==
    /\ (Returned_from("_format_line_spacing") /\ ~IsDashRun(Strip(arg))) =>
           CompoundsKept(arg, res)
    /\ Returned_from("_format_code_content") =>
           \A i \in 1..Len(arg) :
               ~IsDashRun(Strip(arg[i])) => CompoundsKept(arg[i], res[i])

\* the parts the scanner makes of the text that run returned
Rescanned == ScanFrom(final_text, 1, "None", <<>>, <<>>)

\* the parts that are code blocks, closed or left open at the end
BlockParts(parts) ==
    SelectSeq(parts, LAMBDA p : p.kind \in {"standard", "dashed", "unterminated"})

\* the plain lines that are not blank
PlainText(parts) == SelectSeq(PlainLines(parts), LAMBDA line : ~IsBlank(line))

\* C19: the scanner finds in the text that run returned the segments that
\* run emitted: as many code blocks, and the same lines of plain text
\* between them (blank lines aside), so that no plain line has gone into a
\* block and no block was split or merged.
C19_ScanIdempotent ==
    pc = "done" =>
        /\ Len(BlockParts(Rescanned)) = Len(BlockParts(output_parts))
        /\ PlainText(Rescanned) = PlainText(output_parts)

\* the records of the blocks a run processed, in the order of the calls
BlocksOfRun(r) == SelectSeq(blocks, LAMBDA b : b.run = r)

\* the code blocks the scanner emitted: closed standard blocks and converted
\* dashed blocks
EmittedBlocks(parts) == SelectSeq(parts, LAMBDA p : p.kind \in {"standard", "dashed"})

\* C20: the k-th block a run processes is reported with number k, and when
\* run returns block_count is the number of code blocks that the scanner
\* emitted.
C20_BlockCountMatchesScanner ==
    /\ \A r \in 1..run_no :
           \A k \in 1..Len(BlocksOfRun(r)) : BlocksOfRun(r)[k].number = k
    /\ pc = "done" =>
           /\ block_count = Len(BlocksOfRun(run_no))
           /\ block_count = Len(EmittedBlocks(output_parts))

\* lines that open a standard block, hold no other fence delimiter, and, when
\* closed, end with one
OpensStandard(lines) ==
    /\ lines # <<>>
    /\ IsStandardDelimiter(lines[1])

NoFenceInside(lines, last) ==
    \A k \in 2..last : ~IsStandardDelimiter(lines[k])

IsRunOf(lines, t) ==
    \E k \in 1..Len(t) :
        k + Len(lines) - 1 <= Len(t) /\ SubSeq(t, k, k + Len(lines) - 1) = lines

\* C21: inside a standard block the buffer is the run of lines read since
\* the opening fence, whatever they are (dashed delimiters too), none of
\* them a fence delimiter; a standard block that was emitted is a run of
\* lines of the text from an opening fence to the first fence delimiter
\* after it, both included.
C21_StandardBlockBuffersAll ==
    /\ (pc = "scan" /\ in_block_type = "standard") =>
           /\ OpensStandard(buffer)
           /\ NoFenceInside(buffer, Len(buffer))
           /\ buffer = SubSeq(text, idx - Len(buffer), idx - 1)
    /\ \A k \in 1..Len(output_parts) :
           output_parts[k].kind = "standard" =>
               /\ OpensStandard(output_parts[k].text)
               /\ Len(output_parts[k].text) >= 2
               /\ NoFenceInside(output_parts[k].text, Len(output_parts[k].text) - 1)
               /\ IsStandardDelimiter(output_parts[k].text[Len(output_parts[k].text)])
               /\ IsRunOf(output_parts[k].text, text)

C21_Witness ==
    /\ pc = "sub"
    /\ \E k \in 1..Len(output_parts) :
           /\ output_parts[k].kind = "standard"
           /\ Len(output_parts[k].text) = 3
           /\ IsDashedDelimiter(output_parts[k].text[2])

NoDashInside(lines) == \A k \in 1..Len(lines) : ~IsDashedDelimiter(lines[k])

\* the lines of t between two dashed delimiters with none in between
DashedRuns(t) ==
    { SubSeq(t, i + 1, j - 1) :
        i \in {k \in 1..Len(t) : IsDashedDelimiter(t[k])},
        j \in {k \in 1..Len(t) : IsDashedDelimiter(t[k])} } \ { <<>> }

DashedParts(parts) == SelectSeq(parts, LAMBDA p : p.kind = "dashed")

\* C22: inside a dashed block the buffer is the run of lines read since the
\* opening dashed delimiter, which is not in it, fence lines included; a
\* dashed block that was emitted is one fenced block, made from the lines
\* between two dashed delimiters of the text; outside a block the buffer is
\* empty.
C22_DashedBlockBuffersAll ==
    /\ (pc = "scan" /\ in_block_type = "dashed") =>
           /\ idx - Len(buffer) - 1 >= 1
           /\ IsDashedDelimiter(text[idx - Len(buffer) - 1])
           /\ buffer = SubSeq(text, idx - Len(buffer), idx - 1)
           /\ NoDashInside(buffer)
    /\ (pc = "scan" /\ in_block_type = "None") => buffer = <<>>
    /\ \A k \in 1..Len(output_parts) :
           output_parts[k].kind = "dashed" =>
               /\ StartsWith(output_parts[k].text[1], <<Fence>>)
               /\ Len(output_parts[k].text) >= 2
               /\ output_parts[k].text[Len(output_parts[k].text)] = <<Fence>>
               /\ \E lines \in DashedRuns(text) \cup { <<>> } :
                      /\ NoDashInside(lines)
                      /\ output_parts[k].text = _process_dashed_content(lines)
    /\ 2 * Len(DashedParts(output_parts))
           <= Cardinality({k \in 1..Len(text) : IsDashedDelimiter(text[k])})

C22_Witness ==
    /\ pc = "sub"
    /\ in_block_type = "None"
    /\ buffer = <<>>
    /\ Len(output_parts) = 1
    /\ output_parts[1].kind = "dashed"
    /\ output_parts[1].text = << <<Fence>>, <<Fence>>, <<Fence>> >>

\* the header of the block a call returned: the tag and the title, if any
Header ==
    IF Returned_from("_deconstruct_block") THEN res.lang
    ELSE IF Returned_from("_process_dashed_content") THEN Tail(res[1])
    ELSE <<>>

HasTitle(header) == header \notin {INVALID, DEMO} /\ HasSpace(header)

TagOf(header) == SubSeq(header, 1, NonSpaceRunEnd(header, 1))

TitleOf(header) == SubSeq(header, NonSpaceRunEnd(header, 1) + 2, Len(header))

\* C23: a header returned by _deconstruct_block or _process_dashed_content
\* has a title only after a tag that is one known language, and the title
\* is a valid identifier; an empty tag never has a title.
C23_TitleOnlyAfterKnownLanguage ==
    HasTitle(Header) =>
        /\ LowerStr(TagOf(Header)) \in KNOWN_LANGUAGES
        /\ TitleOf(Header) # <<>>
        /\ \A k \in 1..Len(TitleOf(Header)) : IsIdChar(TitleOf(Header)[k])

Configured == mode \in {"all", "individual"}

\* what holds in a state of run as far as the prompts go
PromptState ==
    /\ pc = "mode" => mode = "None"
    /\ pc \notin {"mode", "aborted"} => Configured
    /\ pc \in {"mode", "config"} => blocks = <<>> /\ block_count = 0
    /\ \A k \in 1..Len(blocks) :
           /\ blocks[k].prompted
                  <=> (mode = "individual" /\ ~NeedsFixing(blocks[k].lang))
           /\ blocks[k].answer # <<>> => blocks[k].prompted

RECURSIVE LeadingSpaces(_)
LeadingSpaces(line) ==
    IF line # <<>> /\ Head(line) = " " THEN 1 + LeadingSpaces(Tail(line)) ELSE 0

\* the depth at which _format_code_content emits each line from the i-th
\* on, d being the depth left by the lines before
RECURSIVE RepairDepths(_, _, _)
RepairDepths(lines, i, d) ==
    IF i > Len(lines) THEN <<>>
    ELSE IF IsDashRun(Strip(lines[i])) THEN <<d>> \o RepairDepths(lines, i + 1, d)
    ELSE LET at == IF StartsWith(Strip(lines[i]), <<"}">>) THEN Max(0, d - 1) ELSE d
         IN <<at>> \o RepairDepths(lines, i + 1,
                                   Max(0, at + Count(lines[i], "{") - Count(lines[i], "}")))

\* the same for _format_code_indentation
RECURSIVE CleanerDepths(_, _, _)
CleanerDepths(lines, i, d) ==
    IF i > Len(lines) THEN <<>>
    ELSE IF StripWhite(lines[i]) = <<>> THEN <<d>> \o CleanerDepths(lines, i + 1, d)
    ELSE LET line == StripWhite(lines[i])
             at == IF \/ StartsWith(line, <<"}">>)
                      \/ StartsWith(line, <<"c", "a", "s", "e", " ">>)
                      \/ StartsWith(line, <<"d", "e", "f", "a", "u", "l", "t", ":">>)
                   THEN Max(0, d - 1) ELSE d
         IN <<at>> \o CleanerDepths(lines, i + 1,
                                    IF EndsWith(line, <<"{">>) \/ EndsWith(line, <<":">>)
                                    THEN at + 1 ELSE at)

\* the lines of out are those of in, each indented by IndentSize spaces for
\* each level of depths, the dash rules and the blank lines apart
IndentedBy(in, out, depths) ==
    /\ Len(out) = Len(in)
    /\ depths[1] = 0
    /\ \A k \in 1..Len(in) :
           /\ depths[k] >= 0
           /\ (~IsDashRun(Strip(in[k])) /\ ~IsBlank(out[k])) =>
                  LeadingSpaces(out[k]) = IndentSize * depths[k]

\* C26: in _format_code_content and in _format_code_indentation the depth
\* starts at 0 and is never negative, whatever the braces, and a line that
\* is neither a dash rule nor blank comes back indented by four spaces for
\* each level of the depth at which it was emitted.
C26_DepthClampedAtZero ==
    /\ Returned_from("_format_code_content") =>
           IndentedBy(arg, res, RepairDepths(arg, 1, 0))
    /\ Returned_from("_format_code_indentation") =>
           IndentedBy(SplitLines(arg, 1), SplitLines(res, 1),
                      CleanerDepths(SplitLines(arg, 1), 1, 0))

C26_Witness ==
    /\ Returned_from("_format_code_indentation")
    /\ arg = JoinLines(<< <<"}", "}">>, <<"{">>, <<"{">>, <<"x">>, <<"}">> >>)
    /\ res = JoinLines(<< <<"}", "}">>, <<"{">>, Spaces(4) \o <<"{">>,
                          Spaces(8) \o <<"x">>, Spaces(4) \o <<"}">> >>)

Opens(lines, k) == Cardinality({j \in 1..k : lines[j] = <<"{">>})

Closes(lines, k) == Cardinality({j \in 1..k : lines[j] = <<"}">>})

\* each line is one brace or a statement, no closing brace comes before
\* its opening brace, and every brace is closed
BalancedBraces(lines) ==
    /\ \A k \in 1..Len(lines) :
           /\ lines[k] \in { <<"{">>, <<"}">>, <<"x">> }
           /\ Closes(lines, k) <= Opens(lines, k)
    /\ Closes(lines, Len(lines)) = Opens(lines, Len(lines))

\* the number of blocks that enclose the k-th line; a brace line is counted
\* with the block that encloses its pair
NestingDepth(lines, k) ==
    IF lines[k] = <<"}">> THEN Opens(lines, k) - Closes(lines, k)
    ELSE Opens(lines, k - 1) - Closes(lines, k - 1)

\* C29: for a body of balanced braces, each on a line of its own,
\* _format_code_content indents every line by four spaces for each block
\* that encloses it: a closing brace like its opening brace, and the line
\* after a closing brace at the depth of the enclosing block.
C29_BalancedBracesIndented ==
    (Returned_from("_format_code_content") /\ BalancedBraces(arg)) =>
        \A k \in 1..Len(arg) :
            LeadingSpaces(res[k]) = IndentSize * NestingDepth(arg, k)

\* the blocks the scanner of the current call has emitted whole
ScannerBlocks ==
    { output_parts[j].text :
        j \in {i \in 1..Len(output_parts) :
                  output_parts[i].kind \in {"standard", "dashed"}} }

\* C27: every region that block_finder_regex hands to _replacement_callback
\* is one block the scanner emitted, a closed standard block or a converted
\* dashed block, from its opening line to its closing line.
C27_FinderMatchesScannerBlocks ==
    pc \in {"sub", "done", "written"} =>
        \A k \in 1..Len(blocks) :
            blocks[k].run = run_no => blocks[k].raw \in ScannerBlocks

LevelOneHeadings(lines) == Cardinality({k \in 1..Len(lines) : lines[k] = Hashes(1)})

\* C30: in both header correctors the question about level 1 is asked at
\* most once, in the step that sets the first heading of level 1; after the
\* answer no, allow_level_one stays false and no heading is set to level 1.
C30_LevelOneAskedOnce ==
    [][/\ first_level_one_set => first_level_one_set' /\ allow_level_one' = allow_level_one
       /\ first_level_one_set' # first_level_one_set =>
              /\ LevelOneHeadings(new_lines) = 0
              /\ new_lines' = Append(new_lines, Hashes(1))
       /\ (LevelOneHeadings(new_lines') > 0) => first_level_one_set'
       /\ ~allow_level_one' => first_level_one_set'
       /\ ~allow_level_one =>
              /\ ~allow_level_one'
              /\ LevelOneHeadings(new_lines') = LevelOneHeadings(new_lines)]_vars

C30_Witness ==
    /\ gpc = "cli_done"
    /\ ~allow_level_one
    /\ new_lines = <<Hashes(2), Hashes(1), Hashes(2), "B">>

\* a line without its spaces
Squeeze(line) == SelectSeq(line, LAMBDA ch : ch # " ")

\* the line is found, spacing apart, in the header or in the body of out
KeptIn(line, out) ==
    \E j \in 1..(Len(out) - 1) :
        \E p \in 1..Len(Squeeze(out[j])) :
            /\ p + Len(Squeeze(line)) - 1 <= Len(Squeeze(out[j]))
            /\ SubSeq(Squeeze(out[j]), p, p + Len(Squeeze(line)) - 1) = Squeeze(line)

\* C28: when the opening fence of a block carries a tag and the parsed tag
\* is a recognized one, every non-blank line between the fences is found,
\* spacing apart, in the block the callback returns, in the header or in
\* the body, in the mode all and with any answer in the mode individual.
C28_NoContentLineLost ==
    (/\ Returned_from("_replacement_callback")
     /\ ~res.needs_fixing
     /\ FirstToken(arg.block) # <<>>) =>
        \A k \in 2..(Len(arg.block) - 1) :
            ~IsBlank(arg.block[k]) => KeptIn(arg.block[k], res.out)

====
